---- MODULE Spec2Model ----
(***************************************************************************)
(* Verification model of the leviathan branch-and-bound substrate:         *)
(* SearchState, SearchTrail (delta and bundled variants), SearchStack and  *)
(* BerthTimeline.  Every component has its own next-state relation and     *)
(* specification; the variables of the other components stay at their      *)
(* constructed values.                                                     *)
(***************************************************************************)
EXTENDS Integers, Sequences, FiniteSets, TLC

(***************************************************************************)
(* Bounds of the model.                                                    *)
(***************************************************************************)
NumBerths == 2
NumVessels == 2
MaxMoves == 2
MaxTrail == 2
MaxDepth == 2
MaxEntries == 3
MaxTime == 3

\* SearchState::kUnassignedVessel
kUnassignedVessel == -1

Berths == 0 .. (NumBerths - 1)
Vessels == 0 .. (NumVessels - 1)
\* Times and cost deltas a move may carry.
StateTimes == {0, 1}
CostDeltas == {1, 2}

VARIABLES
    \* SearchState
    berth_free_times, vessel_assignments, vessel_start_times,
    last_assigned_vessel, current_objective,
    \* driver of SearchState: the values captured before each applied move
    \* (newest last), the operation performed last and the move undone last
    captured, state_op, undone,
    \* driver of SearchState and the bundled trail together: the fields that
    \* backtrack_move writes, as they were at the push_frame of each open
    \* trail frame, outermost first
    frame_states,
    \* SearchTrail (delta variant)
    value_trail, dirty_indices, checkpoints,
    \* the containers the driver passes to backtrack, and what the last
    \* backtrack did to them: the indices given to cleanup_op and the
    \* <<index, value>> assignments to the value container, in order
    values, dirty_target, cleanup_calls, value_writes,
    \* driver of the delta trail: the value container as it was at each open
    \* checkpoint, whether the top checkpoint is one that the reference run
    \* does without ("open"; "committed" from its commit until the next
    \* recording operation), and the reference run; the restoration call
    \* made last with depth() at the time of the call
    scope_values, inner, shadow, delta_call,
    \* SearchTrail<T> (bundled variant), and the entries the last backtrack
    \* passed to undo_func, in call order
    trail_entries, trail_frames, undo_calls,
    \* capacity() of the two vectors of the bundled trail, and the call made
    \* last ("none" after construction)
    trail_entries_cap, trail_frames_cap, trail_call,
    \* the while loop of the bundled backtrack, for runs that follow it step
    \* by step: where it stands, its start_index, whether undo_func pushes
    \* onto the same trail, the number of entries in the frame on entry and
    \* the invocations of undo_func so far (counted up to LoopCap)
    undo_loop,
    \* SearchStack<T>
    stack_entries, stack_frames,
    \* driver of the stack: how far the sequence push_frame; extend(xs);
    \* pop_frame has got, the stack before its push_frame and xs; and the
    \* open frames as the driver sees them, each with its decisions; and the
    \* call made last ("none" after construction)
    sym, nested, stack_call,
    \* capacity() of the two vectors of the stack
    stack_entries_cap, stack_frames_cap,
    \* driver of the stack: the stack as it was before the push_frame (or
    \* fill_frame) of each open frame, outermost first
    opened,
    \* BerthTimeline, and the call made last with its arguments and result
    \* (for assign(open, close) also the number of windows held before)
    windows, query,
    \* debug build: the call whose DCHECK failed and aborted the process, with
    \* its first argument; NotAborted while the process runs
    aborted

state_vars == <<berth_free_times, vessel_assignments, vessel_start_times,
                last_assigned_vessel, current_objective,
                captured, state_op, undone, frame_states>>

delta_vars == <<value_trail, dirty_indices, checkpoints, values, dirty_target,
                cleanup_calls, value_writes,
                scope_values, inner, shadow, delta_call>>

btrail_vars == <<trail_entries, trail_frames, undo_calls,
                 trail_entries_cap, trail_frames_cap, trail_call, undo_loop>>

stack_vars == <<stack_entries, stack_frames, sym, nested, stack_call,
                stack_entries_cap, stack_frames_cap, opened>>

timeline_vars == <<windows, query>>

debug_vars == <<aborted>>

vars == <<state_vars, delta_vars, btrail_vars, stack_vars, timeline_vars,
          debug_vars>>

\* No DCHECK has failed: the process runs.
NotAborted == [call |-> "none", arg |-> -1]

Alive == aborted = NotAborted

\* The DCHECK of the named call failed.
AbortedIn(call, arg) == [call |-> call, arg |-> arg]

(***************************************************************************)
(* SearchState                                                             *)
(***************************************************************************)

\* The five fields of a SearchState as one record.
StateFields(bft, va, vst, lav, obj) ==
    [berth_free_times |-> bft, vessel_assignments |-> va,
     vessel_start_times |-> vst, last_assigned_vessel |-> lav,
     current_objective |-> obj]

CurrentState ==
    StateFields(berth_free_times, vessel_assignments, vessel_start_times,
                last_assigned_vessel, current_objective)

\* SearchState(num_berths, num_vessels)
NewState ==
    StateFields([b \in Berths |-> 0], [v \in Vessels |-> kUnassignedVessel],
                [v \in Vessels |-> 0], kUnassignedVessel, 0)

\* SearchState(berth_times, assignments, start_times): warm start
WarmState(bt, as, st) == StateFields(bt, as, st, kUnassignedVessel, 0)

is_assigned(s, v_idx) == s.vessel_assignments[v_idx] # kUnassignedVessel

\* Mutant of apply_move: the objective is overwritten instead of accumulated.
apply_move_overwrite(s, v_idx, b_idx, start_time, finish_time, cost_delta) ==
    [s EXCEPT !.berth_free_times[b_idx] = finish_time,
              !.vessel_assignments[v_idx] = b_idx,
              !.vessel_start_times[v_idx] = start_time,
              !.current_objective = cost_delta,
              !.last_assigned_vessel = v_idx]

\* Mutant of apply_move: the berth is stored one-based.
apply_move_one_based(s, v_idx, b_idx, start_time, finish_time, cost_delta) ==
    [s EXCEPT !.berth_free_times[b_idx] = finish_time,
              !.vessel_assignments[v_idx] = b_idx + 1,
              !.vessel_start_times[v_idx] = start_time,
              !.current_objective = s.current_objective + cost_delta,
              !.last_assigned_vessel = v_idx]

\* Mutant of apply_move: last_assigned_vessel is left as it was.
apply_move_keep_last(s, v_idx, b_idx, start_time, finish_time, cost_delta) ==
    [s EXCEPT !.berth_free_times[b_idx] = finish_time,
              !.vessel_assignments[v_idx] = b_idx,
              !.vessel_start_times[v_idx] = start_time,
              !.current_objective = s.current_objective + cost_delta]

\* apply_move(v_idx, b_idx, start_time, finish_time, cost_delta)
apply_move(s, v_idx, b_idx, start_time, finish_time, cost_delta) ==
    [s EXCEPT !.berth_free_times[b_idx] = finish_time,
              !.vessel_assignments[v_idx] = b_idx,
              !.vessel_start_times[v_idx] = start_time,
              !.current_objective = s.current_objective + cost_delta,
              !.last_assigned_vessel = v_idx]

\* Mutant of backtrack_move: last_assigned_vessel is reset to the sentinel
\* instead of the captured value.
backtrack_move_reset_last(s, v_idx, b_idx, old_berth_free_time, old_objective, old_last_vessel) ==
    [s EXCEPT !.berth_free_times[b_idx] = old_berth_free_time,
              !.vessel_assignments[v_idx] = kUnassignedVessel,
              !.current_objective = old_objective,
              !.last_assigned_vessel = kUnassignedVessel]

\* Mutant of backtrack_move: the start time of the vessel is reset as well.
backtrack_move_reset_start(s, v_idx, b_idx, old_berth_free_time, old_objective, old_last_vessel) ==
    [s EXCEPT !.berth_free_times[b_idx] = old_berth_free_time,
              !.vessel_assignments[v_idx] = kUnassignedVessel,
              !.vessel_start_times[v_idx] = 0,
              !.current_objective = old_objective,
              !.last_assigned_vessel = old_last_vessel]

backtrack_move(s, v_idx, b_idx, old_berth_free_time, old_objective, old_last_vessel) ==
    [s EXCEPT !.berth_free_times[b_idx] = old_berth_free_time,
              !.vessel_assignments[v_idx] = kUnassignedVessel,
              !.current_objective = old_objective,
              !.last_assigned_vessel = old_last_vessel]

SetState(s) ==
    /\ berth_free_times' = s.berth_free_times
    /\ vessel_assignments' = s.vessel_assignments
    /\ vessel_start_times' = s.vessel_start_times
    /\ last_assigned_vessel' = s.last_assigned_vessel
    /\ current_objective' = s.current_objective

\* No move to compare with: the last two operations were not an apply_move
\* and its backtrack_move.
NoMove == [v_idx |-> kUnassignedVessel]

\* Construction: SearchState(num_berths, num_vessels), or the warm start
\* from three ranges of matching sizes (here: any set of vessels already
\* assigned, vessel v to berth v % num_berths, all times 1).
ConstructedStates ==
    {NewState} \cup
    {WarmState([b \in Berths |-> 1],
               [v \in Vessels |-> IF v \in A THEN v % NumBerths
                                  ELSE kUnassignedVessel],
               [v \in Vessels |-> 1]) : A \in SUBSET Vessels}

StateIs(s) ==
    /\ berth_free_times = s.berth_free_times
    /\ vessel_assignments = s.vessel_assignments
    /\ vessel_start_times = s.vessel_start_times
    /\ last_assigned_vessel = s.last_assigned_vessel
    /\ current_objective = s.current_objective

InitState ==
    /\ \E s \in ConstructedStates : StateIs(s)
    /\ captured = <<>>
    /\ state_op = "new"
    /\ undone = NoMove
    /\ frame_states = <<>>

\* get_start_time(v_idx), with the vessel assigned
get_start_time(s, v_idx) == s.vessel_start_times[v_idx]

\* get_assigned_berth(v_idx), with the vessel assigned
get_assigned_berth(s, v_idx) == s.vessel_assignments[v_idx]

\* The outcome of a call in a debug build: whether a DCHECK aborted it, the
\* state it left and the value it returned.
Outcome(dcheck_failed, s, value) ==
    [aborted |-> dcheck_failed, state |-> s, value |-> value]

\* Mutant of apply_move_debug: the DCHECK comes after the writes.
apply_move_debug_check_last(s, v_idx, b_idx, start_time, finish_time, cost_delta) ==
    Outcome(is_assigned(s, v_idx),
            apply_move(s, v_idx, b_idx, start_time, finish_time, cost_delta), 0)

\* apply_move in a debug build: DCHECK(!is_assigned(v_idx)), then the writes
apply_move_debug(s, v_idx, b_idx, start_time, finish_time, cost_delta) ==
    IF is_assigned(s, v_idx)
    THEN Outcome(TRUE, s, 0)
    ELSE Outcome(FALSE, apply_move(s, v_idx, b_idx, start_time, finish_time,
                                   cost_delta), 0)

\* get_start_time in a debug build: DCHECK(is_assigned(v_idx))
get_start_time_debug(s, v_idx) ==
    IF ~is_assigned(s, v_idx)
    THEN Outcome(TRUE, s, 0)
    ELSE Outcome(FALSE, s, get_start_time(s, v_idx))

\* get_assigned_berth in a debug build: DCHECK(is_assigned(v_idx))
get_assigned_berth_debug(s, v_idx) ==
    IF ~is_assigned(s, v_idx)
    THEN Outcome(TRUE, s, 0)
    ELSE Outcome(FALSE, s, get_assigned_berth(s, v_idx))

\* The process aborted: the driver and what it had captured are gone.
DriverGone ==
    /\ captured' = <<>>
    /\ state_op' = "aborted"
    /\ undone' = NoMove

\* The driver captures (berth_free_times[b], current_objective,
\* last_assigned_vessel) and calls apply_move; on an assigned vessel the
\* DCHECK aborts the call.
ApplyMove ==
    \E v_idx \in Vessels, b_idx \in Berths, start_time \in StateTimes,
       finish_time \in StateTimes, cost_delta \in CostDeltas :
        /\ Alive
        /\ start_time <= finish_time
        /\ Len(captured) < MaxMoves
        /\ LET r == apply_move_debug(CurrentState, v_idx, b_idx, start_time,
                                     finish_time, cost_delta)
           IN  /\ SetState(r.state)
               /\ IF r.aborted
                  THEN /\ aborted' = AbortedIn("apply_move", v_idx)
                       /\ DriverGone
                  ELSE /\ aborted' = aborted
                       /\ captured' = Append(captured,
                              [v_idx |-> v_idx, b_idx |-> b_idx,
                               old_berth_free_time |-> berth_free_times[b_idx],
                               old_objective |-> current_objective,
                               old_last_vessel |-> last_assigned_vessel])
                       /\ state_op' = "apply_move"
                       /\ undone' = [v_idx |-> v_idx, b_idx |-> b_idx,
                                     start_time |-> start_time,
                                     finish_time |-> finish_time,
                                     cost_delta |-> cost_delta,
                                     before |-> CurrentState]
        /\ UNCHANGED frame_states
        /\ UNCHANGED <<delta_vars, btrail_vars, stack_vars, timeline_vars>>

\* get_start_time(v_idx): returns without changing anything, or aborts on
\* an unassigned vessel.
GetStartTime ==
    \E v_idx \in Vessels :
        /\ Alive
        /\ LET r == get_start_time_debug(CurrentState, v_idx)
           IN  /\ SetState(r.state)
               /\ IF r.aborted
                  THEN /\ aborted' = AbortedIn("get_start_time", v_idx)
                       /\ DriverGone
                  ELSE UNCHANGED <<aborted, captured, state_op, undone>>
        /\ UNCHANGED frame_states
        /\ UNCHANGED <<delta_vars, btrail_vars, stack_vars, timeline_vars>>

\* get_assigned_berth(v_idx): returns without changing anything, or aborts
\* on an unassigned vessel.
GetAssignedBerth ==
    \E v_idx \in Vessels :
        /\ Alive
        /\ LET r == get_assigned_berth_debug(CurrentState, v_idx)
           IN  /\ SetState(r.state)
               /\ IF r.aborted
                  THEN /\ aborted' = AbortedIn("get_assigned_berth", v_idx)
                       /\ DriverGone
                  ELSE UNCHANGED <<aborted, captured, state_op, undone>>
        /\ UNCHANGED frame_states
        /\ UNCHANGED <<delta_vars, btrail_vars, stack_vars, timeline_vars>>

\* The driver undoes the most recent move that is still applied, passing
\* the values it captured before that move.
BacktrackMove ==
    /\ Alive
    /\ captured # <<>>
    /\ LET m == captured[Len(captured)] IN
        /\ SetState(backtrack_move(CurrentState, m.v_idx, m.b_idx,
                                   m.old_berth_free_time, m.old_objective,
                                   m.old_last_vessel))
        /\ captured' = SubSeq(captured, 1, Len(captured) - 1)
        /\ state_op' = IF state_op = "apply_move"
                       THEN "apply_backtrack" ELSE "backtrack_move"
        /\ undone' = IF state_op = "apply_move"
                     THEN [v_idx |-> undone.v_idx, before |-> undone.before]
                     ELSE NoMove
    /\ UNCHANGED <<frame_states, delta_vars, btrail_vars, stack_vars, timeline_vars, debug_vars>>

\* Mutant of backtrack_move_debug: the call is refused unless the vessel is
\* assigned to the berth.
backtrack_move_debug_checked(s, v_idx, b_idx, old_berth_free_time, old_objective, old_last_vessel) ==
    IF s.vessel_assignments[v_idx] # b_idx
    THEN Outcome(TRUE, s, 0)
    ELSE Outcome(FALSE, backtrack_move(s, v_idx, b_idx, old_berth_free_time,
                                       old_objective, old_last_vessel), 0)

\* backtrack_move in a debug build: there is no DCHECK, only the writes
backtrack_move_debug(s, v_idx, b_idx, old_berth_free_time, old_objective, old_last_vessel) ==
    Outcome(FALSE, backtrack_move(s, v_idx, b_idx, old_berth_free_time,
                                  old_objective, old_last_vessel), 0)

\* Values a caller may pass as old_objective and as old_last_vessel.
OldObjectives == {0, 1}

OldLastVessels == Vessels \cup {kUnassignedVessel}

\* backtrack_move called with any arguments, whatever the state: the driver
\* keeps what it passed and where the vessel was assigned before the call,
\* and forgets the moves it had captured.
BacktrackMoveAny ==
    \E v_idx \in Vessels, b_idx \in Berths, old_berth_free_time \in StateTimes,
       old_objective \in OldObjectives, old_last_vessel \in OldLastVessels :
        /\ Alive
        /\ LET r == backtrack_move_debug(CurrentState, v_idx, b_idx,
                                         old_berth_free_time, old_objective,
                                         old_last_vessel)
           IN  /\ SetState(r.state)
               /\ aborted' = IF r.aborted
                             THEN AbortedIn("backtrack_move", v_idx)
                             ELSE aborted
        /\ captured' = <<>>
        /\ state_op' = "backtrack_move(any)"
        /\ undone' = [v_idx |-> v_idx, b_idx |-> b_idx,
                      old_berth_free_time |-> old_berth_free_time,
                      old_objective |-> old_objective,
                      old_last_vessel |-> old_last_vessel,
                      was_assigned_to |-> vessel_assignments[v_idx]]
        /\ UNCHANGED frame_states
        /\ UNCHANGED <<delta_vars, btrail_vars, stack_vars, timeline_vars>>

\* A caller that does not follow the LIFO discipline: from a fresh or a
\* warm-started state it calls backtrack_move any number of times.
NextStateAny ==
    \/ BacktrackMoveAny

NextState ==
    \/ ApplyMove
    \/ BacktrackMove
    \/ GetStartTime
    \/ GetAssignedBerth

(***************************************************************************)
(* SearchTrail, delta variant                                              *)
(***************************************************************************)

\* Indices and values of the containers under restoration.
Slots == {0, 1}
TrailValues == {0, 1}
\* The value a dirty slot is reset to, and the value the driver sets.
ResetVal == -1
TouchedVal == 1

Front(seq) == SubSeq(seq, 1, Len(seq) - 1)

\* std::vector::resize: truncates, or pads with value-initialised elements.
Resize(seq, n, zero) ==
    [k \in 1 .. n |-> IF k <= Len(seq) THEN seq[k] ELSE zero]

\* The trail together with the containers it restores.
World(vt, di, cp, vals, dt, calls, writes) ==
    [value_trail |-> vt, dirty_indices |-> di, checkpoints |-> cp,
     values |-> vals, dirty_target |-> dt,
     cleanup_calls |-> calls, value_writes |-> writes]

CurrentWorld ==
    World(value_trail, dirty_indices, checkpoints, values, dirty_target,
          cleanup_calls, value_writes)

\* SearchTrail(depth) with the containers of the test fixture.
NewWorld ==
    World(<<>>, <<>>, <<>>, [i \in Slots |-> 0], [i \in Slots |-> ResetVal],
          <<>>, <<>>)

save_value(vt, index, value) ==
    Append(vt, [old_value |-> value, index |-> index])

mark_touched(di, index) == Append(di, [index |-> index])

\* Mutant of push_checkpoint: the checkpoint marks the beginning of both
\* logs.
push_checkpoint_from_bottom(cp, vt, di) == Append(cp, <<0, 0>>)

\* Mutant of push_checkpoint: the sizes are taken one too large.
push_checkpoint_off_by_one(cp, vt, di) ==
    Append(cp, <<Len(vt) + 1, Len(di) + 1>>)

push_checkpoint(cp, vt, di) == Append(cp, <<Len(vt), Len(di)>>)

\* cleanup_op of the convenience overload: dirty_target[idx] = reset_val.
ResetDirty(w, idx) ==
    [w EXCEPT !.dirty_target[idx] = ResetVal,
              !.cleanup_calls = Append(@, idx)]

\* Mutant of the cleanup loop: it runs down to the beginning of the log.
RECURSIVE CleanupLoopWholeLog(_, _, _)
CleanupLoopWholeLog(w, i, target_dirty_size) ==
    IF i > 0
    THEN CleanupLoopWholeLog(ResetDirty(w, w.dirty_indices[i].index), i - 1,
                             target_dirty_size)
    ELSE w

\* Mutant of the cleanup loop: an index marked several times is cleaned
\* once.
RECURSIVE CleanupLoopOncePerIndex(_, _, _)
CleanupLoopOncePerIndex(w, i, target_dirty_size) ==
    IF i > target_dirty_size
    THEN LET idx == w.dirty_indices[i].index
             seen == \E k \in 1 .. Len(w.cleanup_calls) : w.cleanup_calls[k] = idx
         IN  CleanupLoopOncePerIndex(IF seen THEN w ELSE ResetDirty(w, idx),
                                     i - 1, target_dirty_size)
    ELSE w

\* for (i = current_dirty_size; i > target_dirty_size; --i)
\*     cleanup_op(dirty_indices_[i - 1].index);
RECURSIVE CleanupLoop(_, _, _)
CleanupLoop(w, i, target_dirty_size) ==
    IF i > target_dirty_size
    THEN CleanupLoop(ResetDirty(w, w.dirty_indices[i].index), i - 1,
                     target_dirty_size)
    ELSE w

\* for (i = current_val_size; i > target_val_size; --i)
\*     values[value_trail_[i - 1].index] = value_trail_[i - 1].old_value;
RECURSIVE RestoreLoop(_, _, _)
RestoreLoop(w, i, target_val_size) ==
    IF i > target_val_size
    THEN LET e == w.value_trail[i] IN
         RestoreLoop([w EXCEPT !.values[e.index] = e.old_value,
                               !.value_writes = Append(@, <<e.index, e.old_value>>)],
                     i - 1, target_val_size)
    ELSE w

\* Mutant of the restore loop: the entries are replayed oldest first.
RECURSIVE RestoreLoopForward(_, _, _)
RestoreLoopForward(w, i, target_val_size) ==
    IF i > target_val_size
    THEN LET e == w.value_trail[Len(w.value_trail) + target_val_size + 1 - i] IN
         RestoreLoopForward([w EXCEPT !.values[e.index] = e.old_value,
                               !.value_writes = Append(@, <<e.index, e.old_value>>)],
                     i - 1, target_val_size)
    ELSE w

ZeroValueEntry == [old_value |-> 0, index |-> 0]
ZeroDirtyEntry == [index |-> 0]

\* Mutant of backtrack: without a checkpoint both logs are unwound to their
\* beginning.
backtrack_unwind_all(w) ==
    LET target_val_size ==
            IF w.checkpoints = <<>> THEN 0
            ELSE w.checkpoints[Len(w.checkpoints)][1]
        target_dirty_size ==
            IF w.checkpoints = <<>> THEN 0
            ELSE w.checkpoints[Len(w.checkpoints)][2]
        w1 == [w EXCEPT !.checkpoints = Front(@)]
        w2 == CleanupLoop(w1, Len(w1.dirty_indices), target_dirty_size)
        w3 == [w2 EXCEPT !.dirty_indices =
                             Resize(@, target_dirty_size, ZeroDirtyEntry)]
        w4 == RestoreLoop(w3, Len(w3.value_trail), target_val_size)
    IN  [w4 EXCEPT !.value_trail =
                       Resize(@, target_val_size, ZeroValueEntry)]

\* Mutant of backtrack: values are restored oldest first.
backtrack_forward(w) ==
    IF w.checkpoints = <<>>
    THEN w
    ELSE LET target_val_size == w.checkpoints[Len(w.checkpoints)][1]
             target_dirty_size == w.checkpoints[Len(w.checkpoints)][2]
             w1 == [w EXCEPT !.checkpoints = Front(@)]
             w2 == CleanupLoop(w1, Len(w1.dirty_indices), target_dirty_size)
             w3 == [w2 EXCEPT !.dirty_indices =
                                  Resize(@, target_dirty_size, ZeroDirtyEntry)]
             w4 == RestoreLoopForward(w3, Len(w3.value_trail), target_val_size)
         IN  [w4 EXCEPT !.value_trail =
                            Resize(@, target_val_size, ZeroValueEntry)]

\* backtrack(values, cleanup_op) with the cleanup of the convenience
\* overload backtrack(values, dirty_target, reset_val).
backtrack(w) ==
    IF w.checkpoints = <<>>
    THEN w
    ELSE LET target_val_size == w.checkpoints[Len(w.checkpoints)][1]
             target_dirty_size == w.checkpoints[Len(w.checkpoints)][2]
             w1 == [w EXCEPT !.checkpoints = Front(@)]
             w2 == CleanupLoop(w1, Len(w1.dirty_indices), target_dirty_size)
             w3 == [w2 EXCEPT !.dirty_indices =
                                  Resize(@, target_dirty_size, ZeroDirtyEntry)]
             w4 == RestoreLoop(w3, Len(w3.value_trail), target_val_size)
         IN  [w4 EXCEPT !.value_trail =
                            Resize(@, target_val_size, ZeroValueEntry)]

\* A cleanup_op that writes into the container the values are restored
\* into: values[idx] = reset_val.
ResetValue(w, idx) ==
    [w EXCEPT !.values[idx] = ResetVal,
              !.cleanup_calls = Append(@, idx),
              !.value_writes = Append(@, <<idx, ResetVal>>)]

\* The cleanup loop of backtrack with ResetValue as cleanup_op.
RECURSIVE CleanupLoopInto(_, _, _)
CleanupLoopInto(w, i, target_dirty_size) ==
    IF i > target_dirty_size
    THEN CleanupLoopInto(ResetValue(w, w.dirty_indices[i].index), i - 1,
                         target_dirty_size)
    ELSE w

\* Mutant of backtrack_into: the values are restored before the cleanup.
backtrack_into_restore_first(w) ==
    IF w.checkpoints = <<>>
    THEN w
    ELSE LET target_val_size == w.checkpoints[Len(w.checkpoints)][1]
             target_dirty_size == w.checkpoints[Len(w.checkpoints)][2]
             w1 == [w EXCEPT !.checkpoints = Front(@)]
             w2 == RestoreLoop(w1, Len(w1.value_trail), target_val_size)
             w3 == [w2 EXCEPT !.value_trail =
                                  Resize(@, target_val_size, ZeroValueEntry)]
             w4 == CleanupLoopInto(w3, Len(w3.dirty_indices), target_dirty_size)
         IN  [w4 EXCEPT !.dirty_indices =
                            Resize(@, target_dirty_size, ZeroDirtyEntry)]

\* backtrack(values, cleanup_op) with a cleanup_op that writes into values.
backtrack_into(w) ==
    IF w.checkpoints = <<>>
    THEN w
    ELSE LET target_val_size == w.checkpoints[Len(w.checkpoints)][1]
             target_dirty_size == w.checkpoints[Len(w.checkpoints)][2]
             w1 == [w EXCEPT !.checkpoints = Front(@)]
             w2 == CleanupLoopInto(w1, Len(w1.dirty_indices), target_dirty_size)
             w3 == [w2 EXCEPT !.dirty_indices =
                                  Resize(@, target_dirty_size, ZeroDirtyEntry)]
             w4 == RestoreLoop(w3, Len(w3.value_trail), target_val_size)
         IN  [w4 EXCEPT !.value_trail =
                            Resize(@, target_val_size, ZeroValueEntry)]

\* Mutant of commit_checkpoint: the scope is restored as by backtrack.
commit_checkpoint_restoring(w) == backtrack(w)

\* Mutant of commit_checkpoint: the logs are cut back as in backtrack.
commit_checkpoint_truncating(w) ==
    IF w.checkpoints = <<>>
    THEN w
    ELSE [w EXCEPT !.checkpoints = Front(@),
                   !.value_trail = Resize(@, w.checkpoints[Len(w.checkpoints)][1],
                                          ZeroValueEntry)]

\* commit_checkpoint(): pops the top checkpoint without restoring.
commit_checkpoint(w) ==
    IF w.checkpoints = <<>> THEN w ELSE [w EXCEPT !.checkpoints = Front(@)]

\* clear()
clear_trail(w) ==
    [w EXCEPT !.value_trail = <<>>, !.dirty_indices = <<>>,
              !.checkpoints = <<>>]

\* The calls a driver makes, each as a step on the trail and its containers.
\* Saving: save_value(i, values[i]) followed by values[i] = x.
DoSave(w, i, x) ==
    [w EXCEPT !.value_trail = save_value(@, i, w.values[i]),
              !.values[i] = x,
              !.cleanup_calls = <<>>, !.value_writes = <<>>]

\* Marking: mark_touched(i) followed by dirty_target[i] = 1.
DoMark(w, i) ==
    [w EXCEPT !.dirty_indices = mark_touched(@, i),
              !.dirty_target[i] = TouchedVal,
              !.cleanup_calls = <<>>, !.value_writes = <<>>]

\* No call on the trail: only the record of the last backtrack is dropped.
Quiet(w) == [w EXCEPT !.cleanup_calls = <<>>, !.value_writes = <<>>]

DoPush(w) ==
    [w EXCEPT !.checkpoints = push_checkpoint(@, w.value_trail, w.dirty_indices),
              !.cleanup_calls = <<>>, !.value_writes = <<>>]

DoBacktrack(w) ==
    backtrack([w EXCEPT !.cleanup_calls = <<>>, !.value_writes = <<>>])

DoBacktrackInto(w) ==
    backtrack_into([w EXCEPT !.cleanup_calls = <<>>, !.value_writes = <<>>])

DoCommit(w) ==
    commit_checkpoint([w EXCEPT !.cleanup_calls = <<>>, !.value_writes = <<>>])

DoClear(w) ==
    clear_trail([w EXCEPT !.cleanup_calls = <<>>, !.value_writes = <<>>])

\* The driver's record of a restoration call; NoCall after any other call.
NoCall == [call |-> "none", depth |-> 0]
Called(call, depth) == [call |-> call, depth |-> depth]

SetWorld(w) ==
    /\ value_trail' = w.value_trail
    /\ dirty_indices' = w.dirty_indices
    /\ checkpoints' = w.checkpoints
    /\ values' = w.values
    /\ dirty_target' = w.dirty_target
    /\ cleanup_calls' = w.cleanup_calls
    /\ value_writes' = w.value_writes

InitDelta ==
    /\ value_trail = <<>>
    /\ dirty_indices = <<>>
    /\ checkpoints = <<>>
    /\ values = NewWorld.values
    /\ dirty_target = NewWorld.dirty_target
    /\ cleanup_calls = <<>>
    /\ value_writes = <<>>
    /\ scope_values = <<>>
    /\ inner = "none"
    /\ shadow = NewWorld
    /\ delta_call = NoCall

SaveValue ==
    \E i \in Slots, x \in TrailValues :
        /\ x # values[i]
        /\ Len(value_trail) + Len(dirty_indices) < MaxTrail
        /\ SetWorld(DoSave(CurrentWorld, i, x))
        /\ shadow' = DoSave(shadow, i, x)
        /\ inner' = IF inner = "open" THEN "open" ELSE "none"
        /\ delta_call' = NoCall
        /\ UNCHANGED <<scope_values, state_vars, btrail_vars, stack_vars, timeline_vars, debug_vars>>

MarkTouched ==
    \E i \in Slots :
        /\ Len(value_trail) + Len(dirty_indices) < MaxTrail
        /\ SetWorld(DoMark(CurrentWorld, i))
        /\ shadow' = DoMark(shadow, i)
        /\ inner' = IF inner = "open" THEN "open" ELSE "none"
        /\ delta_call' = NoCall
        /\ UNCHANGED <<scope_values, state_vars, btrail_vars, stack_vars, timeline_vars, debug_vars>>

PushCheckpoint ==
    /\ inner # "open"
    /\ Len(checkpoints) < MaxDepth
    /\ SetWorld(DoPush(CurrentWorld))
    /\ shadow' = DoPush(shadow)
    /\ scope_values' = Append(scope_values, values)
    /\ inner' = "none"
    /\ delta_call' = NoCall
    /\ UNCHANGED <<state_vars, btrail_vars, stack_vars, timeline_vars, debug_vars>>

\* A checkpoint that is later committed; the reference run skips it.
PushInnerCheckpoint ==
    /\ inner # "open"
    /\ Len(checkpoints) < MaxDepth
    /\ SetWorld(DoPush(CurrentWorld))
    /\ scope_values' = Append(scope_values, values)
    /\ inner' = "open"
    /\ shadow' = Quiet(shadow)
    /\ delta_call' = NoCall
    /\ UNCHANGED <<state_vars, btrail_vars, stack_vars, timeline_vars, debug_vars>>

Backtrack ==
    /\ inner # "open"
    /\ SetWorld(DoBacktrack(CurrentWorld))
    /\ shadow' = DoBacktrack(shadow)
    /\ scope_values' = Front(scope_values)
    /\ delta_call' = Called("backtrack", Len(checkpoints))
    /\ UNCHANGED <<inner, state_vars, btrail_vars, stack_vars, timeline_vars, debug_vars>>

CommitCheckpoint ==
    /\ SetWorld(DoCommit(CurrentWorld))
    /\ shadow' = IF inner = "open" THEN Quiet(shadow) ELSE DoCommit(shadow)
    /\ scope_values' = Front(scope_values)
    /\ inner' = IF inner = "open" THEN "committed" ELSE "none"
    /\ delta_call' = Called("commit_checkpoint", Len(checkpoints))
    /\ UNCHANGED <<state_vars, btrail_vars, stack_vars, timeline_vars, debug_vars>>

ClearTrail ==
    /\ inner # "open"
    /\ SetWorld(DoClear(CurrentWorld))
    /\ shadow' = DoClear(shadow)
    /\ scope_values' = <<>>
    /\ inner' = "none"
    /\ delta_call' = NoCall
    /\ UNCHANGED <<state_vars, btrail_vars, stack_vars, timeline_vars, debug_vars>>

\* backtrack(values, cleanup_op) where cleanup_op resets values[idx].
BacktrackInto ==
    /\ inner # "open"
    /\ SetWorld(DoBacktrackInto(CurrentWorld))
    /\ shadow' = DoBacktrackInto(shadow)
    /\ scope_values' = Front(scope_values)
    /\ delta_call' = Called("backtrack", Len(checkpoints))
    /\ UNCHANGED <<inner, state_vars, btrail_vars, stack_vars, timeline_vars, debug_vars>>

\* A driver whose cleanup_op shares the container of the restored values.
NextDeltaInto ==
    \/ SaveValue
    \/ MarkTouched
    \/ PushCheckpoint
    \/ BacktrackInto
    \/ ClearTrail

NextDelta ==
    \/ SaveValue
    \/ MarkTouched
    \/ PushCheckpoint
    \/ PushInnerCheckpoint
    \/ Backtrack
    \/ CommitCheckpoint
    \/ ClearTrail

(***************************************************************************)
(* std::vector capacity                                                    *)
(***************************************************************************)

\* The capacities reserve is called with.
Capacities == {2}

\* capacity() after the vector has to hold size elements (push_back,
\* emplace_back, insert, append_range, reserve): unchanged while size fits,
\* otherwise a reallocation to at least size; how much more is up to the
\* library: exactly size, or twice the old capacity if that is more.
Growth(cap, size) ==
    IF size <= cap
    THEN {cap}
    ELSE {size, IF 2 * cap > size THEN 2 * cap ELSE size}

\* Mutant of clear: the storage is released.
vector_clear_released(cap) == 0

\* capacity() after std::vector::clear, pop_back and a shrinking resize.
vector_clear(cap) == cap

(***************************************************************************)
(* SearchTrail<T>, bundled variant                                         *)
(***************************************************************************)

\* The restoration bundles pushed by the driver.
Bundles == {1, 2, 3}

Reverse(seq) == [k \in 1 .. Len(seq) |-> seq[Len(seq) + 1 - k]]

\* Mutant of push_frame: the frame starts one past the end of the tape.
trail_push_frame_off_by_one(entries, frames) == Append(frames, Len(entries) + 1)

\* Mutant of push_frame: the frame starts at the bottom of the tape.
trail_push_frame_from_bottom(entries, frames) == Append(frames, 0)

\* SearchTrail<T>::push_frame
trail_push_frame(entries, frames) == Append(frames, Len(entries))

\* SearchTrail<T>::push
trail_push(entries, entry) == Append(entries, entry)

\* SearchTrail<T>::emplace
trail_emplace(entries, entry) == Append(entries, entry)

\* Mutant of the undo loop: the frame is undone oldest entry first.
RECURSIVE UndoLoopForward(_, _, _)
UndoLoopForward(entries, start_index, calls) ==
    IF Len(entries) > start_index
    THEN UndoLoopForward(Front(entries), start_index,
                         <<entries[Len(entries)]>> \o calls)
    ELSE [entries |-> entries, calls |-> calls]

\* while (entries_.size() > start_index)
\*     { undo_func(entries_.back()); entries_.pop_back(); }
RECURSIVE UndoLoop(_, _, _)
UndoLoop(entries, start_index, calls) ==
    IF Len(entries) > start_index
    THEN UndoLoop(Front(entries), start_index,
                  Append(calls, entries[Len(entries)]))
    ELSE [entries |-> entries, calls |-> calls]

\* Mutant of trail_backtrack: the loop runs down to the bottom of the tape.
trail_backtrack_whole_tape(entries, frames) ==
    LET r == UndoLoop(entries, 0, <<>>)
    IN  [entries |-> r.entries, frames |-> Front(frames), calls |-> r.calls]

\* SearchTrail<T>::backtrack with at least one frame: the frame is popped
\* and the loop run; the result holds the tape, the frames and the calls.
trail_backtrack(entries, frames) ==
    LET start_index == frames[Len(frames)]
        r == UndoLoop(entries, start_index, <<>>)
    IN  [entries |-> r.entries, frames |-> Front(frames), calls |-> r.calls]

\* Mutant of the debug-build backtrack: the check is missing, and without a
\* frame the loop runs from the bottom of the tape.
trail_backtrack_debug_unchecked(entries, frames) ==
    LET start_index == IF frames = <<>> THEN 0 ELSE frames[Len(frames)]
        r == UndoLoop(entries, start_index, <<>>)
    IN  [dcheck_failed |-> FALSE, entries |-> r.entries,
         frames |-> IF frames = <<>> THEN <<>> ELSE Front(frames),
         calls |-> r.calls]

\* SearchTrail<T>::backtrack in a debug build: DCHECK(!frames_.empty())
\* comes first; when it fails nothing has been read, written or called.
trail_backtrack_debug(entries, frames) ==
    IF frames = <<>>
    THEN [dcheck_failed |-> TRUE, entries |-> entries, frames |-> frames,
          calls |-> <<>>]
    ELSE LET r == trail_backtrack(entries, frames)
         IN  [dcheck_failed |-> FALSE, entries |-> r.entries,
              frames |-> r.frames, calls |-> r.calls]

\* SearchTrail<T>::allocated_memory_bytes with T = int
trail_allocated_memory_bytes(entries_cap, frames_cap) ==
    entries_cap * 4 + frames_cap * 8

\* SearchTrail<T>::used_memory_bytes with T = int
trail_used_memory_bytes(entries, frames) ==
    Len(entries) * 4 + Len(frames) * 8

\* No backtrack is running and none has returned yet.
NoLoop ==
    [pc |-> "idle", start_index |-> 0, reentrant |-> FALSE, expected |-> 0,
     calls |-> 0]

\* SearchTrail()
InitBundled ==
    /\ trail_entries = <<>>
    /\ trail_frames = <<>>
    /\ undo_calls = <<>>
    /\ trail_entries_cap = 0
    /\ trail_frames_cap = 0
    /\ trail_call = "none"
    /\ undo_loop = NoLoop

TrailPushFrame ==
    /\ Alive
    /\ Len(trail_frames) < MaxDepth
    /\ trail_frames' = trail_push_frame(trail_entries, trail_frames)
    /\ undo_calls' = <<>>
    /\ trail_frames_cap' \in Growth(trail_frames_cap, Len(trail_frames'))
    /\ trail_entries_cap' = trail_entries_cap
    /\ trail_call' = "push_frame"
    /\ undo_loop' = undo_loop
    /\ UNCHANGED <<trail_entries, state_vars, delta_vars, stack_vars, timeline_vars, debug_vars>>

TrailPush ==
    \E entry \in Bundles :
        /\ Alive
        /\ Len(trail_entries) < MaxEntries
        /\ trail_entries' = trail_push(trail_entries, entry)
        /\ undo_calls' = <<>>
        /\ trail_entries_cap' \in Growth(trail_entries_cap, Len(trail_entries'))
        /\ trail_frames_cap' = trail_frames_cap
        /\ trail_call' = "push"
        /\ undo_loop' = undo_loop
        /\ UNCHANGED <<trail_frames, state_vars, delta_vars, stack_vars, timeline_vars, debug_vars>>

TrailEmplace ==
    \E entry \in Bundles :
        /\ Alive
        /\ Len(trail_entries) < MaxEntries
        /\ trail_entries' = trail_emplace(trail_entries, entry)
        /\ undo_calls' = <<>>
        /\ trail_entries_cap' \in Growth(trail_entries_cap, Len(trail_entries'))
        /\ trail_frames_cap' = trail_frames_cap
        /\ trail_call' = "emplace"
        /\ undo_loop' = undo_loop
        /\ UNCHANGED <<trail_frames, state_vars, delta_vars, stack_vars, timeline_vars, debug_vars>>

\* backtrack(undo_func) where undo_func records the entry it is given.
\* Without a frame the DCHECK ends the process.
TrailBacktrack ==
    /\ Alive
    /\ LET r == trail_backtrack_debug(trail_entries, trail_frames) IN
        /\ trail_entries' = r.entries
        /\ trail_frames' = r.frames
        /\ undo_calls' = r.calls
        /\ aborted' = IF r.dcheck_failed
                      THEN AbortedIn("backtrack", Len(trail_frames))
                      ELSE aborted
    /\ trail_entries_cap' = trail_entries_cap
    /\ trail_frames_cap' = trail_frames_cap
    /\ trail_call' = "backtrack"
    /\ undo_loop' = undo_loop
    /\ UNCHANGED <<state_vars, delta_vars, stack_vars, timeline_vars>>

TrailClear ==
    /\ Alive
    /\ trail_entries' = <<>>
    /\ trail_frames' = <<>>
    /\ undo_calls' = <<>>
    /\ trail_entries_cap' = vector_clear(trail_entries_cap)
    /\ trail_frames_cap' = vector_clear(trail_frames_cap)
    /\ trail_call' = "clear"
    /\ undo_loop' = undo_loop
    /\ UNCHANGED <<state_vars, delta_vars, stack_vars, timeline_vars, debug_vars>>

\* reserve(entry_cap, frame_cap)
TrailReserve ==
    \E entry_cap \in Capacities, frame_cap \in Capacities :
        /\ Alive
        /\ trail_entries_cap' \in Growth(trail_entries_cap, entry_cap)
        /\ trail_frames_cap' \in Growth(trail_frames_cap, frame_cap)
        /\ undo_calls' = <<>>
        /\ trail_call' = "reserve"
        /\ undo_loop' = undo_loop
        /\ UNCHANGED <<trail_entries, trail_frames, state_vars, delta_vars, stack_vars, timeline_vars, debug_vars>>

NextBundled ==
    \/ TrailReserve
    \/ TrailPushFrame
    \/ TrailPush
    \/ TrailEmplace
    \/ TrailBacktrack
    \/ TrailClear

(***************************************************************************)
(* SearchStack<T>                                                          *)
(***************************************************************************)

\* The decisions pushed by the driver, and the batches given to extend and
\* fill_frame.
Decisions == {1, 2}
Batches == {<<>>} \cup {<<d>> : d \in Decisions}
               \cup {<<d, e>> : d \in Decisions, e \in Decisions}

Stack(entries, frames) == [entries |-> entries, frames |-> frames]

CurrentStack == Stack(stack_entries, stack_frames)

\* Mutant of push_frame: the frame starts one past the end of the tape.
push_frame_off_by_one(st) ==
    [st EXCEPT !.frames = Append(@, Len(st.entries) + 1)]

push_frame(st) == [st EXCEPT !.frames = Append(@, Len(st.entries))]

\* Mutant of pop_frame: the frame index is popped, the tape is not cut.
pop_frame_keep_entries(st) == [st EXCEPT !.frames = Front(@)]

\* Mutant of pop_frame: the tape is cut back to the start of the enclosing
\* frame.
pop_frame_to_enclosing(st) ==
    LET start_index == IF Len(st.frames) >= 2
                       THEN st.frames[Len(st.frames) - 1] ELSE 0
    IN  [st EXCEPT !.frames = Front(@),
                   !.entries = Resize(@, start_index, 0)]

\* pop_frame, with a frame present
pop_frame(st) ==
    LET start_index == st.frames[Len(st.frames)]
    IN  [st EXCEPT !.frames = Front(@),
                   !.entries = Resize(@, start_index, 0)]

\* push(decision), with a frame present
push(st, decision) == [st EXCEPT !.entries = Append(@, decision)]

\* emplace(args...), with a frame present
emplace(st, decision) == [st EXCEPT !.entries = Append(@, decision)]

\* Mutant of pop_entry: the oldest entry of the current frame is removed.
pop_entry_oldest(st) ==
    LET start_index == st.frames[Len(st.frames)]
    IN  [st EXCEPT !.entries = SubSeq(@, 1, start_index)
                                   \o SubSeq(@, start_index + 2, Len(@))]

\* pop_entry, with a non-empty current frame
pop_entry(st) == [st EXCEPT !.entries = Front(@)]

\* extend(range), with a frame present
extend(st, range) == [st EXCEPT !.entries = @ \o range]

\* extend(first, last): reserves for random-access iterators, then inserts
extend_iter(st, range) == [st EXCEPT !.entries = @ \o range]

\* extend(initializer_list)
extend_list(st, list) == [st EXCEPT !.entries = @ \o list]

\* fill_frame(range)
fill_frame(st, range) == extend(push_frame(st), range)

\* fill_frame(first, last)
fill_frame_iter(st, range) == extend_iter(push_frame(st), range)

\* fill_frame(initializer_list)
fill_frame_list(st, list) == extend_list(push_frame(st), list)

\* A generator that streams the decisions of a batch onto the tape: push
\* for the first, emplace for the rest.
RECURSIVE Generate(_, _, _)
Generate(st, batch, first) ==
    IF batch = <<>>
    THEN st
    ELSE Generate(IF first THEN push(st, Head(batch))
                  ELSE emplace(st, Head(batch)),
                  Tail(batch), FALSE)

\* fill_frame(gen)
fill_frame_gen(st, batch) == Generate(push_frame(st), batch, TRUE)

\* Mutant of fill_frame(count_hint, gen): the tape is resized, not
\* reserved, before the generator runs.
fill_frame_hint_resizing(st, count_hint, batch) ==
    LET st1 == push_frame(st)
        st2 == [st1 EXCEPT !.entries = Resize(@, Len(@) + count_hint, 0)]
    IN  Generate(st2, batch, TRUE)

\* fill_frame(count_hint, gen): reserves, then as fill_frame(gen)
fill_frame_hint(st, count_hint, batch) == Generate(push_frame(st), batch, TRUE)

\* top(), with a non-empty current frame
top(st) == st.entries[Len(st.entries)]

\* Mutant of current_frame_entries: the view starts at the root of the tape.
current_frame_entries_whole_tape(st) ==
    IF st.frames = <<>> THEN <<>> ELSE st.entries

\* current_frame_entries()
current_frame_entries(st) ==
    IF st.frames = <<>>
    THEN <<>>
    ELSE LET start == st.frames[Len(st.frames)]
         IN  SubSeq(st.entries, start + 1, Len(st.entries))

\* SearchStack<T>::allocated_memory_bytes with T = int
allocated_memory_bytes(entries_cap, frames_cap) ==
    entries_cap * 4 + frames_cap * 8

\* clear()
clear(st) == [st EXCEPT !.entries = <<>>, !.frames = <<>>]

\* Mutant of pop_entry_debug: only the emptiness of the tape is checked.
pop_entry_debug_tape_only(st) ==
    IF st.entries = <<>>
    THEN Outcome(TRUE, st, 0)
    ELSE Outcome(FALSE, pop_entry(st), 0)

\* pop_frame in a debug build: DCHECK(!frames_.empty())
pop_frame_debug(st) ==
    IF st.frames = <<>>
    THEN Outcome(TRUE, st, 0)
    ELSE Outcome(FALSE, pop_frame(st), 0)

\* Mutant of push_debug: the check is missing.
push_debug_unchecked(st, decision) == Outcome(FALSE, push(st, decision), 0)

\* push in a debug build: DCHECK(!frames_.empty())
push_debug(st, decision) ==
    IF st.frames = <<>>
    THEN Outcome(TRUE, st, 0)
    ELSE Outcome(FALSE, push(st, decision), 0)

\* emplace in a debug build: DCHECK(!frames_.empty())
emplace_debug(st, decision) ==
    IF st.frames = <<>>
    THEN Outcome(TRUE, st, 0)
    ELSE Outcome(FALSE, emplace(st, decision), decision)

\* pop_entry in a debug build: DCHECK(!entries_.empty());
\* DCHECK(entries_.size() > frames_.back())
pop_entry_debug(st) ==
    IF st.entries = <<>>
    THEN Outcome(TRUE, st, 0)
    ELSE IF ~(Len(st.entries) > st.frames[Len(st.frames)])
         THEN Outcome(TRUE, st, 0)
         ELSE Outcome(FALSE, pop_entry(st), 0)

\* top in a debug build: DCHECK(!entries_.empty());
\* DCHECK(entries_.size() > frames_.back())
top_debug(st) ==
    IF st.entries = <<>>
    THEN Outcome(TRUE, st, 0)
    ELSE IF ~(Len(st.entries) > st.frames[Len(st.frames)])
         THEN Outcome(TRUE, st, 0)
         ELSE Outcome(FALSE, st, top(st))

\* extend(range) in a debug build: DCHECK(!frames_.empty())
extend_debug(st, range) ==
    IF st.frames = <<>>
    THEN Outcome(TRUE, st, 0)
    ELSE Outcome(FALSE, extend(st, range), 0)

\* extend(first, last) in a debug build: DCHECK(!frames_.empty())
extend_iter_debug(st, range) ==
    IF st.frames = <<>>
    THEN Outcome(TRUE, st, 0)
    ELSE Outcome(FALSE, extend_iter(st, range), 0)

\* extend(initializer_list) in a debug build: DCHECK(!frames_.empty())
extend_list_debug(st, list) ==
    IF st.frames = <<>>
    THEN Outcome(TRUE, st, 0)
    ELSE Outcome(FALSE, extend_list(st, list), 0)

\* current_frame_size()
current_frame_size(st) ==
    IF st.frames = <<>>
    THEN 0
    ELSE Len(st.entries) - st.frames[Len(st.frames)]

\* Mutant of the global iteration: it starts at the current frame.
RECURSIVE IterateFromFrame(_, _, _)
IterateFromFrame(st, it, history) ==
    IF it = Len(st.entries) + 1
    THEN history
    ELSE IF st.frames # <<>> /\ it <= st.frames[Len(st.frames)]
         THEN IterateFromFrame(st, it + 1, history)
         ELSE IterateFromFrame(st, it + 1, Append(history, st.entries[it]))

\* for (it = begin(); it != end(); ++it) history.push_back(*it), with
\* begin() the first position of the tape and end() the one past the last
RECURSIVE Iterate(_, _, _)
Iterate(st, it, history) ==
    IF it = Len(st.entries) + 1
    THEN history
    ELSE Iterate(st, it + 1, Append(history, st.entries[it]))

\* for (it = rbegin(); it != rend(); ++it) history.push_back(*it), with
\* rbegin() the last position of the tape and rend() the one before the first
RECURSIVE ReverseIterate(_, _, _)
ReverseIterate(st, it, history) ==
    IF it = 0
    THEN history
    ELSE ReverseIterate(st, it - 1, Append(history, st.entries[it]))

\* The vectors take the contents of st, growing where they have to.
SetStack(st) ==
    /\ stack_entries' = st.entries
    /\ stack_frames' = st.frames
    /\ stack_entries_cap' \in Growth(stack_entries_cap, Len(st.entries))
    /\ stack_frames_cap' \in Growth(stack_frames_cap, Len(st.frames))

\* Not inside a push_frame; extend; pop_frame sequence.
NoSym == [stage |-> 0, before |-> Stack(<<>>, <<>>), xs |-> <<>>]

\* The driver's own account of the open frames: opening a frame, adding
\* decisions to the current one, dropping its newest decision, closing it.
OpenFrame(n) == Append(n, <<>>)

AddToFrame(n, xs) ==
    IF n = <<>> THEN n ELSE [n EXCEPT ![Len(n)] = @ \o xs]

DropFromFrame(n) ==
    IF n = <<>> THEN n ELSE [n EXCEPT ![Len(n)] = Front(@)]

CloseFrame(n) == Front(n)

InitStack ==
    /\ stack_entries = <<>>
    /\ stack_frames = <<>>
    /\ sym = NoSym
    /\ nested = <<>>
    /\ stack_call = "none"
    /\ stack_entries_cap = 0
    /\ stack_frames_cap = 0
    /\ opened = <<>>

Room(n) == Len(stack_entries) + n <= MaxEntries

StackOthers == <<state_vars, delta_vars, btrail_vars, timeline_vars>>

\* The sequence push_frame; extend(xs); pop_frame goes on with extend(xs).
SymExtended(xs) ==
    IF sym.stage = 1 THEN [sym EXCEPT !.stage = 2, !.xs = xs] ELSE NoSym

\* The outcome r of a call in a debug build becomes the next state: an
\* aborted call ends the process, a completed one moves the driver on.
StackResult(r, call, next_sym, next_nested) ==
    /\ SetStack(r.state)
    /\ stack_call' = call
    /\ opened' = IF call = "pop_frame" /\ ~r.aborted
                 THEN Front(opened) ELSE opened
    /\ IF r.aborted
       THEN /\ aborted' = AbortedIn(call, -1)
            /\ sym' = NoSym
            /\ nested' = nested
       ELSE /\ aborted' = aborted
            /\ sym' = next_sym
            /\ nested' = next_nested

PushFrame ==
    /\ Alive
    /\ Len(stack_frames) < MaxDepth
    /\ SetStack(push_frame(CurrentStack))
    /\ sym' = [stage |-> 1, before |-> CurrentStack, xs |-> <<>>]
    /\ stack_call' = "push_frame"
    /\ nested' = OpenFrame(nested)
    /\ opened' = Append(opened, CurrentStack)
    /\ UNCHANGED <<StackOthers, debug_vars>>

PopFrame ==
    /\ Alive
    /\ StackResult(pop_frame_debug(CurrentStack), "pop_frame",
                   IF sym.stage = 2 THEN [sym EXCEPT !.stage = 3] ELSE NoSym,
                   CloseFrame(nested))
    /\ UNCHANGED StackOthers

Push ==
    \E decision \in Decisions :
        /\ Alive
        /\ Room(1)
        /\ StackResult(push_debug(CurrentStack, decision), "push", NoSym,
                       AddToFrame(nested, <<decision>>))
        /\ UNCHANGED StackOthers

Emplace ==
    \E decision \in Decisions :
        /\ Alive
        /\ Room(1)
        /\ StackResult(emplace_debug(CurrentStack, decision), "emplace", NoSym,
                       AddToFrame(nested, <<decision>>))
        /\ UNCHANGED StackOthers

PopEntry ==
    /\ Alive
    /\ StackResult(pop_entry_debug(CurrentStack), "pop_entry", NoSym,
                   DropFromFrame(nested))
    /\ UNCHANGED StackOthers

\* top(): returns without changing anything, or aborts.
Top ==
    /\ Alive
    /\ StackResult(top_debug(CurrentStack), "top", sym, nested)
    /\ UNCHANGED StackOthers

Extend ==
    \E range \in Batches :
        /\ Alive
        /\ Room(Len(range))
        /\ StackResult(extend_debug(CurrentStack, range), "extend",
                       SymExtended(range), AddToFrame(nested, range))
        /\ UNCHANGED StackOthers

ExtendIter ==
    \E range \in Batches :
        /\ Alive
        /\ Room(Len(range))
        /\ StackResult(extend_iter_debug(CurrentStack, range), "extend",
                       SymExtended(range), AddToFrame(nested, range))
        /\ UNCHANGED StackOthers

ExtendList ==
    \E list \in Batches :
        /\ Alive
        /\ Room(Len(list))
        /\ StackResult(extend_list_debug(CurrentStack, list), "extend",
                       SymExtended(list), AddToFrame(nested, list))
        /\ UNCHANGED StackOthers

FillFrame ==
    \E range \in Batches :
        /\ Alive
        /\ Len(stack_frames) < MaxDepth
        /\ Room(Len(range))
        /\ SetStack(fill_frame(CurrentStack, range))
        /\ sym' = [stage |-> 2, before |-> CurrentStack, xs |-> range]
        /\ stack_call' = "fill_frame(range)"
        /\ nested' = AddToFrame(OpenFrame(nested), range)
        /\ opened' = Append(opened, CurrentStack)
        /\ UNCHANGED <<StackOthers, debug_vars>>

FillFrameIter ==
    \E range \in Batches :
        /\ Alive
        /\ Len(stack_frames) < MaxDepth
        /\ Room(Len(range))
        /\ SetStack(fill_frame_iter(CurrentStack, range))
        /\ sym' = [stage |-> 2, before |-> CurrentStack, xs |-> range]
        /\ stack_call' = "fill_frame(first, last)"
        /\ nested' = AddToFrame(OpenFrame(nested), range)
        /\ opened' = Append(opened, CurrentStack)
        /\ UNCHANGED <<StackOthers, debug_vars>>

FillFrameList ==
    \E list \in Batches :
        /\ Alive
        /\ Len(stack_frames) < MaxDepth
        /\ Room(Len(list))
        /\ SetStack(fill_frame_list(CurrentStack, list))
        /\ sym' = [stage |-> 2, before |-> CurrentStack, xs |-> list]
        /\ stack_call' = "fill_frame(list)"
        /\ nested' = AddToFrame(OpenFrame(nested), list)
        /\ opened' = Append(opened, CurrentStack)
        /\ UNCHANGED <<StackOthers, debug_vars>>

FillFrameGen ==
    \E batch \in Batches :
        /\ Alive
        /\ Len(stack_frames) < MaxDepth
        /\ Room(Len(batch))
        /\ SetStack(fill_frame_gen(CurrentStack, batch))
        /\ sym' = NoSym
        /\ stack_call' = "fill_frame(gen)"
        /\ nested' = AddToFrame(OpenFrame(nested), batch)
        /\ opened' = Append(opened, CurrentStack)
        /\ UNCHANGED <<StackOthers, debug_vars>>

FillFrameHint ==
    \E batch \in Batches :
        /\ Alive
        /\ Len(stack_frames) < MaxDepth
        /\ Room(Len(batch))
        /\ SetStack(fill_frame_hint(CurrentStack, Len(batch), batch))
        /\ sym' = NoSym
        /\ stack_call' = "fill_frame(count_hint, gen)"
        /\ nested' = AddToFrame(OpenFrame(nested), batch)
        /\ opened' = Append(opened, CurrentStack)
        /\ UNCHANGED <<StackOthers, debug_vars>>

Clear ==
    /\ Alive
    /\ stack_entries' = clear(CurrentStack).entries
    /\ stack_frames' = clear(CurrentStack).frames
    /\ stack_entries_cap' = vector_clear(stack_entries_cap)
    /\ stack_frames_cap' = vector_clear(stack_frames_cap)
    /\ sym' = NoSym
    /\ stack_call' = "clear"
    /\ nested' = <<>>
    /\ opened' = <<>>
    /\ UNCHANGED <<StackOthers, debug_vars>>

\* reserve(entry_capacity, frame_capacity)
Reserve ==
    \E entry_capacity \in Capacities, frame_capacity \in Capacities :
        /\ Alive
        /\ stack_entries_cap' \in Growth(stack_entries_cap, entry_capacity)
        /\ stack_frames_cap' \in Growth(stack_frames_cap, frame_capacity)
        /\ stack_call' = "reserve"
        /\ sym' = NoSym
        /\ UNCHANGED <<stack_entries, stack_frames, nested, opened, StackOthers, debug_vars>>

NextStack ==
    \/ Reserve
    \/ PushFrame
    \/ PopFrame
    \/ Push
    \/ Emplace
    \/ PopEntry
    \/ Top
    \/ Extend
    \/ ExtendIter
    \/ ExtendList
    \/ FillFrame
    \/ FillFrameIter
    \/ FillFrameList
    \/ FillFrameGen
    \/ FillFrameHint
    \/ Clear

(***************************************************************************)
(* BerthTimeline<TimeType>                                                 *)
(***************************************************************************)

Times == 0 .. MaxTime
\* Service durations, one of them longer than any window.
Durations == 0 .. (MaxTime + 1)
\* How many windows an availability list or a fixed list may hold.
ListLengths == {0, 1, 2}

\* AvailableWindow
Window(s, e) == [start_inclusive |-> s, end_exclusive |-> e]

\* Mutant of operator<: a window ending exactly at t is not below t.
WindowLessStrict(w, t) == w.end_exclusive < t

\* AvailableWindow::operator<(TimeType t)
WindowLess(w, t) == w.end_exclusive <= t

\* The data model's windows: start_inclusive < end_exclusive.
NonEmptyWindows ==
    {w \in {Window(s, e) : s \in Times, e \in Times} :
        w.start_inclusive < w.end_exclusive}

WindowLists == UNION {[1 .. n -> NonEmptyWindows] : n \in ListLengths}

\* What the caller of assign(windows) and of the carving assign guarantees
\* of the availability: sorted, disjoint, non-empty.
SortedDisjoint(ws) ==
    \A k \in 1 .. (Len(ws) - 1) :
        ws[k].end_exclusive <= ws[k + 1].start_inclusive

Availabilities == {ws \in WindowLists : SortedDisjoint(ws)}

\* Fixed assignments: sorted by start; they may overlap each other.
SortedByStart(fs) ==
    \A k \in 1 .. (Len(fs) - 1) :
        fs[k].start_inclusive <= fs[k + 1].start_inclusive

FixedLists == {fs \in WindowLists : SortedByStart(fs)}

\* std::max
Max(a, b) == IF a < b THEN b ELSE a

\* Mutant of assign(open, close): the range is stored unchecked.
assign_range_unchecked(ws, open, close) == <<Window(open, close)>>

\* Mutant of assign(open, close): the stored windows are not cleared first.
assign_range_appending(ws, open, close) ==
    IF open < close THEN Append(ws, Window(open, close)) ELSE ws

\* assign(open, close): windows_.clear(), then push_back if open < close
assign_range(ws, open, close) ==
    LET cleared == SubSeq(ws, 1, 0)
    IN  IF open < close THEN Append(cleared, Window(open, close)) ELSE cleared

\* assign(windows)
assign_windows(ws) == ws

\* Mutant of CarveWhile: the skip test looks at the start of the fixed
\* window instead of its end.
RECURSIVE CarveWhileSkipByStart(_, _, _, _, _)
CarveWhileSkipByStart(out, fixed, fixed_it, current_start, avail) ==
    IF fixed_it <= Len(fixed)
       /\ fixed[fixed_it].start_inclusive < avail.end_exclusive
    THEN LET f == fixed[fixed_it] IN
         IF f.start_inclusive <= current_start
         THEN CarveWhileSkipByStart(out, fixed, fixed_it + 1, current_start, avail)
         ELSE LET out1 == IF f.start_inclusive > current_start
                          THEN Append(out, Window(current_start, f.start_inclusive))
                          ELSE out
                  cs1 == Max(current_start, f.end_exclusive)
              IN  IF cs1 >= avail.end_exclusive
                  THEN [windows |-> out1, fixed_it |-> fixed_it, current_start |-> cs1]
                  ELSE IF f.end_exclusive < avail.end_exclusive
                       THEN CarveWhileSkipByStart(out1, fixed, fixed_it + 1, cs1, avail)
                       ELSE [windows |-> out1, fixed_it |-> fixed_it, current_start |-> cs1]
    ELSE [windows |-> out, fixed_it |-> fixed_it, current_start |-> current_start]

\* Mutant of CarveWhile: the fixed window is advanced past also when it
\* reaches the end of the availability window or beyond.
RECURSIVE CarveWhileAlwaysAdvance(_, _, _, _, _)
CarveWhileAlwaysAdvance(out, fixed, fixed_it, current_start, avail) ==
    IF fixed_it <= Len(fixed)
       /\ fixed[fixed_it].start_inclusive < avail.end_exclusive
    THEN LET f == fixed[fixed_it] IN
         IF f.end_exclusive <= current_start
         THEN CarveWhileAlwaysAdvance(out, fixed, fixed_it + 1, current_start, avail)
         ELSE LET out1 == IF f.start_inclusive > current_start
                          THEN Append(out, Window(current_start, f.start_inclusive))
                          ELSE out
                  cs1 == Max(current_start, f.end_exclusive)
              IN  IF cs1 >= avail.end_exclusive
                  THEN [windows |-> out1, fixed_it |-> fixed_it + 1, current_start |-> cs1]
                  ELSE CarveWhileAlwaysAdvance(out1, fixed, fixed_it + 1, cs1, avail)
    ELSE [windows |-> out, fixed_it |-> fixed_it, current_start |-> current_start]

\* The while loop of the carving assign for one availability window: it
\* returns the windows emitted so far, the fixed iterator and current_start.
RECURSIVE CarveWhile(_, _, _, _, _)
CarveWhile(out, fixed, fixed_it, current_start, avail) ==
    IF fixed_it <= Len(fixed)
       /\ fixed[fixed_it].start_inclusive < avail.end_exclusive
    THEN LET f == fixed[fixed_it] IN
         IF f.end_exclusive <= current_start
         THEN CarveWhile(out, fixed, fixed_it + 1, current_start, avail)
         ELSE LET out1 == IF f.start_inclusive > current_start
                          THEN Append(out, Window(current_start, f.start_inclusive))
                          ELSE out
                  cs1 == Max(current_start, f.end_exclusive)
              IN  IF cs1 >= avail.end_exclusive
                  THEN [windows |-> out1, fixed_it |-> fixed_it, current_start |-> cs1]
                  ELSE IF f.end_exclusive < avail.end_exclusive
                       THEN CarveWhile(out1, fixed, fixed_it + 1, cs1, avail)
                       ELSE [windows |-> out1, fixed_it |-> fixed_it, current_start |-> cs1]
    ELSE [windows |-> out, fixed_it |-> fixed_it, current_start |-> current_start]

\* The for loop of the carving assign, from availability window k on.
RECURSIVE CarveFor(_, _, _, _, _)
CarveFor(out, availability, k, fixed, fixed_it) ==
    IF k > Len(availability)
    THEN out
    ELSE LET avail == availability[k]
             r == CarveWhile(out, fixed, fixed_it, avail.start_inclusive, avail)
             out2 == IF r.current_start < avail.end_exclusive
                     THEN Append(r.windows, Window(r.current_start, avail.end_exclusive))
                     ELSE r.windows
         IN  CarveFor(out2, availability, k + 1, fixed, r.fixed_it)

\* The positions of fixed_it in the carving assign: where it stands when
\* the for loop reaches availability window k, followed by where it stands
\* when the loop is over.
RECURSIVE FixedIterators(_, _, _, _)
FixedIterators(availability, k, fixed, fixed_it) ==
    IF k > Len(availability)
    THEN <<fixed_it>>
    ELSE LET avail == availability[k]
             r == CarveWhile(<<>>, fixed, fixed_it, avail.start_inclusive, avail)
         IN  <<fixed_it>> \o FixedIterators(availability, k + 1, fixed, r.fixed_it)

\* assign(availability, fixed_assignments)
assign_carve(availability, fixed_assignments) ==
    CarveFor(<<>>, availability, 1, fixed_assignments, 1)

\* clear()
timeline_clear(ws) == <<>>

\* std::lower_bound(first, last, t) with AvailableWindow::operator<: the
\* bisection over count elements starting at position first.
RECURSIVE lower_bound(_, _, _, _)
lower_bound(ws, first, count, t) ==
    IF count <= 0
    THEN first
    ELSE LET step == count \div 2
             it == first + step
         IN  IF WindowLess(ws[it], t)
             THEN lower_bound(ws, it + 1, count - (step + 1), t)
             ELSE lower_bound(ws, first, step, t)

\* std::optional<TimeType>
nullopt == [has_value |-> FALSE, value |-> 0]

Some(t) == [has_value |-> TRUE, value |-> t]

\* Mutant of FindLoop: the window's start is taken as the start of service
\* even when the vessel is ready later.
RECURSIVE FindLoopWindowStart(_, _, _, _)
FindLoopWindowStart(ws, it, ready_time, duration) ==
    IF it > Len(ws)
    THEN nullopt
    ELSE LET actual_start == ws[it].start_inclusive
         IN  IF duration <= ws[it].end_exclusive - actual_start
             THEN Some(actual_start)
             ELSE FindLoopWindowStart(ws, it + 1, ready_time, duration)

\* Mutant of FindLoop: only the first window at or after ready_time is
\* examined.
FindLoopFirstOnly(ws, it, ready_time, duration) ==
    IF it > Len(ws)
    THEN nullopt
    ELSE LET actual_start == Max(ready_time, ws[it].start_inclusive)
         IN  IF duration <= ws[it].end_exclusive - actual_start
             THEN Some(actual_start)
             ELSE nullopt

\* The for loop of find_earliest_start.
RECURSIVE FindLoop(_, _, _, _)
FindLoop(ws, it, ready_time, duration) ==
    IF it > Len(ws)
    THEN nullopt
    ELSE LET actual_start == Max(ready_time, ws[it].start_inclusive)
         IN  IF duration <= ws[it].end_exclusive - actual_start
             THEN Some(actual_start)
             ELSE FindLoop(ws, it + 1, ready_time, duration)

\* find_earliest_start(ready_time, duration)
find_earliest_start(ws, ready_time, duration) ==
    IF ws = <<>>
    THEN nullopt
    ELSE FindLoop(ws, lower_bound(ws, 1, Len(ws), ready_time),
                  ready_time, duration)

NoQuery == [op |-> "none"]

\* BerthTimeline()
InitTimeline ==
    /\ windows = <<>>
    /\ query = NoQuery

TimelineOthers == <<state_vars, delta_vars, btrail_vars, stack_vars, debug_vars>>

AssignRange ==
    \E open \in Times, close \in Times :
        /\ windows' = assign_range(windows, open, close)
        /\ query' = [op |-> "assign_range", open |-> open, close |-> close,
                     held |-> Len(windows)]
        /\ UNCHANGED TimelineOthers

AssignWindows ==
    \E ws \in Availabilities :
        /\ windows' = assign_windows(ws)
        /\ query' = [op |-> "assign_windows"]
        /\ UNCHANGED TimelineOthers

AssignCarve ==
    \E availability \in Availabilities, fixed_assignments \in FixedLists :
        /\ windows' = assign_carve(availability, fixed_assignments)
        /\ query' = [op |-> "assign_carve", availability |-> availability,
                     fixed_assignments |-> fixed_assignments]
        /\ UNCHANGED TimelineOthers

TimelineClear ==
    /\ windows' = timeline_clear(windows)
    /\ query' = NoQuery
    /\ UNCHANGED TimelineOthers

FindEarliestStart ==
    \E ready_time \in Times, duration \in Durations :
        /\ query' = [op |-> "find_earliest_start", ready_time |-> ready_time,
                     duration |-> duration,
                     result |-> find_earliest_start(windows, ready_time, duration)]
        /\ UNCHANGED <<windows, TimelineOthers>>

NextTimeline ==
    \/ AssignRange
    \/ AssignWindows
    \/ AssignCarve
    \/ TimelineClear
    \/ FindEarliestStart

\* A freshly constructed SearchState(num_berths, num_vessels).
FreshState ==
    /\ StateIs(NewState)
    /\ captured = <<>>
    /\ state_op = "new"
    /\ undone = NoMove
    /\ frame_states = <<>>

InitDebug == aborted = NotAborted

Init ==
    InitState /\ InitDelta /\ InitBundled /\ InitStack /\ InitTimeline /\ InitDebug

SpecState == Init /\ [][NextState]_vars
SpecStateAny == Init /\ [][NextStateAny]_vars

InitFresh ==
    FreshState /\ InitDelta /\ InitBundled /\ InitStack /\ InitTimeline /\ InitDebug

SpecDelta == InitFresh /\ [][NextDelta]_vars
SpecDeltaInto == InitFresh /\ [][NextDeltaInto]_vars

SpecBundled == InitFresh /\ [][NextBundled]_vars

SpecStack == InitFresh /\ [][NextStack]_vars

(***************************************************************************)
(* SearchState driven through the bundled SearchTrail                      *)
(***************************************************************************)

\* The restoration bundle of a move: the arguments of backtrack_move.
MoveBundle(s, v_idx, b_idx) ==
    [v_idx |-> v_idx, b_idx |-> b_idx,
     old_berth_free_time |-> s.berth_free_times[b_idx],
     old_objective |-> s.current_objective,
     old_last_vessel |-> s.last_assigned_vessel]

\* The fields of a state that backtrack_move writes.
Restorable(s) ==
    [berth_free_times |-> s.berth_free_times,
     vessel_assignments |-> s.vessel_assignments,
     current_objective |-> s.current_objective,
     last_assigned_vessel |-> s.last_assigned_vessel]

\* The undo function given to backtrack: backtrack_move with the bundle.
undo_fn(s, entry) ==
    backtrack_move(s, entry.v_idx, entry.b_idx, entry.old_berth_free_time,
                   entry.old_objective, entry.old_last_vessel)

\* The state after undo_fn was called with calls[k], calls[k + 1], ...
RECURSIVE UndoEach(_, _, _)
UndoEach(s, calls, k) ==
    IF k > Len(calls)
    THEN s
    ELSE UndoEach(undo_fn(s, calls[k]), calls, k + 1)

\* Before the search starts the driver reserves the trail's storage once,
\* for MaxEntries entries and MaxDepth frames.
SearchReserve ==
    /\ Alive
    /\ trail_call = "none"
    /\ trail_entries_cap' \in Growth(trail_entries_cap, MaxEntries)
    /\ trail_frames_cap' \in Growth(trail_frames_cap, MaxDepth)
    /\ undo_calls' = undo_calls
    /\ trail_call' = "reserve"
    /\ undo_loop' = undo_loop
    /\ UNCHANGED <<trail_entries, trail_frames, state_vars, delta_vars, stack_vars, timeline_vars, debug_vars>>

\* The driver opens a trail frame for a node of the search.
SearchPushFrame ==
    /\ Alive
    /\ trail_call # "none"
    /\ Len(trail_frames) < MaxDepth
    /\ trail_frames' = trail_push_frame(trail_entries, trail_frames)
    /\ frame_states' = Append(frame_states, Restorable(CurrentState))
    /\ undo_calls' = undo_calls
    /\ trail_frames_cap' \in Growth(trail_frames_cap, Len(trail_frames'))
    /\ trail_entries_cap' = trail_entries_cap
    /\ trail_call' = "push_frame"
    /\ undo_loop' = undo_loop
    /\ UNCHANGED <<trail_entries, berth_free_times, vessel_assignments,
                   vessel_start_times, last_assigned_vessel, current_objective,
                   captured, state_op, undone,
                   delta_vars, stack_vars, timeline_vars, debug_vars>>

\* The driver pushes the bundle of a move on the trail and then calls
\* apply_move; it moves unassigned vessels only, each starting when its
\* berth becomes free.
SearchMove ==
    \E v_idx \in Vessels, b_idx \in Berths, start_time \in StateTimes,
       finish_time \in StateTimes, cost_delta \in CostDeltas :
        /\ Alive
        /\ trail_call # "none"
        /\ ~is_assigned(CurrentState, v_idx)
        /\ start_time = berth_free_times[b_idx]
        /\ start_time <= finish_time
        /\ Len(trail_entries) < MaxEntries
        /\ trail_entries' = trail_push(trail_entries,
                                       MoveBundle(CurrentState, v_idx, b_idx))
        /\ trail_entries_cap' \in Growth(trail_entries_cap, Len(trail_entries'))
        /\ trail_frames_cap' = trail_frames_cap
        /\ undo_calls' = undo_calls
        /\ trail_call' = "push"
        /\ undo_loop' = undo_loop
        /\ SetState(apply_move(CurrentState, v_idx, b_idx, start_time,
                               finish_time, cost_delta))
        /\ UNCHANGED <<trail_frames, frame_states, captured, state_op, undone,
                       delta_vars, stack_vars, timeline_vars, debug_vars>>

\* The driver leaves a node: backtrack(undo_fn) on the trail, where undo_fn
\* restores the state and records nothing.  Without a frame the DCHECK ends
\* the process.
SearchBacktrack ==
    /\ Alive
    /\ trail_call # "none"
    /\ LET r == trail_backtrack_debug(trail_entries, trail_frames) IN
        /\ trail_entries' = r.entries
        /\ trail_frames' = r.frames
        /\ undo_calls' = undo_calls
        /\ SetState(UndoEach(CurrentState, r.calls, 1))
        /\ aborted' = IF r.dcheck_failed
                      THEN AbortedIn("backtrack", Len(trail_frames))
                      ELSE aborted
        /\ frame_states' = IF r.dcheck_failed
                           THEN frame_states ELSE Front(frame_states)
    /\ trail_entries_cap' = trail_entries_cap
    /\ trail_frames_cap' = trail_frames_cap
    /\ trail_call' = "backtrack"
    /\ undo_loop' = undo_loop
    /\ UNCHANGED <<captured, state_op, undone,
                   delta_vars, stack_vars, timeline_vars>>

NextSearch ==
    \/ SearchReserve
    \/ SearchPushFrame
    \/ SearchMove
    \/ SearchBacktrack

SpecSearch == InitFresh /\ [][NextSearch]_vars

(***************************************************************************)
(* SearchTrail<T>::backtrack, one loop iteration at a time                 *)
(***************************************************************************)

\* The invocations of undo_func are counted up to this number.
LoopCap == MaxEntries + 1

\* Mutant of the loop condition: the number of iterations is fixed on
\* entry instead of re-reading entries_.size().
LoopContinuesCounted(l, entries) == l.calls < l.expected

\* while (entries_.size() > start_index)
LoopContinues(l, entries) == Len(entries) > l.start_index

\* The driver reserves the trail's storage once; between backtracks it
\* opens frames and pushes entries.
TrailFill ==
    /\ undo_loop.pc = "idle"
    /\ \/ SearchReserve
       \/ /\ trail_call # "none"
          /\ \/ TrailPushFrame
             \/ TrailPush

\* backtrack(undo_func) up to the loop: the DCHECK, start_index =
\* frames_.back() and frames_.pop_back().  undo_func counts its invocations;
\* it either leaves the trail alone or pushes one entry onto it whenever it
\* is invoked.
BacktrackEnter ==
    \E reentrant \in BOOLEAN :
        /\ Alive
        /\ undo_loop.pc = "idle"
        /\ trail_call # "none"
        /\ IF trail_frames = <<>>
           THEN /\ aborted' = AbortedIn("backtrack", Len(trail_frames))
                /\ UNCHANGED <<trail_frames, undo_loop>>
           ELSE /\ aborted' = aborted
                /\ trail_frames' = Front(trail_frames)
                /\ undo_loop' =
                       [pc |-> "loop",
                        start_index |-> trail_frames[Len(trail_frames)],
                        reentrant |-> reentrant,
                        expected |-> Len(trail_entries) -
                                         trail_frames[Len(trail_frames)],
                        calls |-> 0]
        /\ undo_calls' = <<>>
        /\ trail_call' = "backtrack"
        /\ UNCHANGED <<trail_entries, trail_entries_cap, trail_frames_cap,
                       state_vars, delta_vars, stack_vars, timeline_vars>>

\* The loop condition holds and undo_func(entries_.back()) is invoked; a
\* re-entrant undo_func pushes an entry.
UndoCall ==
    /\ undo_loop.pc = "loop"
    /\ LoopContinues(undo_loop, trail_entries)
    /\ undo_calls' = undo_calls
    /\ undo_loop' = [undo_loop EXCEPT
                         !.pc = "pop",
                         !.calls = IF @ < LoopCap THEN @ + 1 ELSE @]
    /\ IF undo_loop.reentrant
       THEN \E entry \in Bundles :
                trail_entries' = trail_push(trail_entries, entry)
       ELSE trail_entries' = trail_entries
    /\ trail_entries_cap' \in Growth(trail_entries_cap, Len(trail_entries'))
    /\ UNCHANGED <<trail_frames, trail_frames_cap, trail_call,
                   state_vars, delta_vars, stack_vars, timeline_vars, debug_vars>>

\* entries_.pop_back()
PopBack ==
    /\ undo_loop.pc = "pop"
    /\ trail_entries' = Front(trail_entries)
    /\ undo_loop' = [undo_loop EXCEPT !.pc = "loop"]
    /\ UNCHANGED <<trail_frames, undo_calls, trail_entries_cap, trail_frames_cap,
                   trail_call,
                   state_vars, delta_vars, stack_vars, timeline_vars, debug_vars>>

\* The loop condition fails and backtrack returns.
BacktrackReturn ==
    /\ undo_loop.pc = "loop"
    /\ ~LoopContinues(undo_loop, trail_entries)
    /\ undo_loop' = [undo_loop EXCEPT !.pc = "idle"]
    /\ UNCHANGED <<trail_entries, trail_frames, undo_calls, trail_entries_cap,
                   trail_frames_cap, trail_call,
                   state_vars, delta_vars, stack_vars, timeline_vars, debug_vars>>

NextUndoLoop ==
    \/ TrailFill
    \/ BacktrackEnter
    \/ UndoCall
    \/ PopBack
    \/ BacktrackReturn

\* The thread inside backtrack keeps running: whichever of the three loop
\* steps is possible is taken.
SpecUndoLoop ==
    /\ InitFresh
    /\ [][NextUndoLoop]_vars
    /\ WF_vars(UndoCall)
    /\ WF_vars(PopBack)
    /\ WF_vars(BacktrackReturn)

\* A search that works on its stack while the trail is untouched, and on
\* its bundled trail once the stack has been cleared with storage for
\* MaxEntries entries and MaxDepth frames.  Every state of either container
\* is reached; the trail is not explored again for every other capacity the
\* cleared stack can be left with.
StackRun ==
    /\ trail_call = "none"
    /\ NextStack

TrailRun ==
    /\ stack_call = "clear"
    /\ stack_entries_cap = MaxEntries
    /\ stack_frames_cap = MaxDepth
    /\ NextBundled

NextContainers ==
    \/ StackRun
    \/ TrailRun

SpecContainers == InitFresh /\ [][NextContainers]_vars
SpecTimeline == InitFresh /\ [][NextTimeline]_vars

\* C1: apply_move followed by backtrack_move with the values captured just
\* before the apply leaves berth_free_times, vessel_assignments,
\* current_objective and last_assigned_vessel as they were before the apply;
\* the vessel is unassigned again and only vessel_start_times[v] may differ.
RoundTripRestores ==
    state_op = "apply_backtrack" =>
        /\ berth_free_times = undone.before.berth_free_times
        /\ vessel_assignments = undone.before.vessel_assignments
        /\ current_objective = undone.before.current_objective
        /\ last_assigned_vessel = undone.before.last_assigned_vessel
        /\ ~is_assigned(CurrentState, undone.v_idx)
        /\ \A v \in Vessels \ {undone.v_idx} :
              vessel_start_times[v] = undone.before.vessel_start_times[v]

\* A round trip on a state with an earlier move still applied, in which the
\* undone move had changed every field it can change.
RoundTripWitness ==
    /\ state_op = "apply_backtrack"
    /\ captured # <<>>
    /\ last_assigned_vessel # kUnassignedVessel
    /\ vessel_start_times[undone.v_idx] #
           undone.before.vessel_start_times[undone.v_idx]

\* C2: with every write preceded by save_value(i, values[i]), a backtrack
\* with a checkpoint present leaves the value container exactly as it was at
\* the matching push_checkpoint and lowers depth() by one, at any nesting
\* depth and also when one index was saved several times in the scope.
BacktrackRestoresScope ==
    [][(Backtrack /\ checkpoints # <<>>) =>
           /\ values' = scope_values[Len(scope_values)]
           /\ Len(checkpoints') = Len(checkpoints) - 1]_vars

\* A backtrack of a nested scope in which one index had been saved twice.
BacktrackRestoresScopeWitness ==
    /\ Len(checkpoints) >= 1
    /\ Len(value_writes) = 2
    /\ value_writes[1][1] = value_writes[2][1]
    /\ value_writes[1][2] # value_writes[2][2]
    /\ values[value_writes[2][1]] = value_writes[2][2]

\* C7: push_checkpoint; work; commit_checkpoint leaves the trail and the
\* containers as the same work without the inner checkpoint does: the logs
\* and containers agree throughout, and from the commit on also depth() and
\* everything later operations (backtracks included) do.
CommitLaw ==
    /\ shadow.value_trail = value_trail
    /\ shadow.dirty_indices = dirty_indices
    /\ shadow.values = values
    /\ shadow.dirty_target = dirty_target
    /\ inner # "open" => shadow = CurrentWorld

\* An inner scope with a save in it was committed and the next backtrack
\* undid it together with a save of the enclosing scope.
CommitLawWitness ==
    /\ inner = "committed"
    /\ Len(value_writes) = 2
    /\ shadow = CurrentWorld

\* C10: every stored checkpoint (tv, td) has tv <= len(value_trail) and
\* td <= len(dirty_indices).
CheckpointMonotonicity ==
    \A k \in 1 .. Len(checkpoints) :
        /\ checkpoints[k][1] <= Len(value_trail)
        /\ checkpoints[k][2] <= Len(dirty_indices)

\* After a backtrack that undid a save, an enclosing checkpoint remains
\* whose recorded sizes are exactly the current non-zero log sizes.
CheckpointMonotonicityWitness ==
    /\ value_writes # <<>>
    /\ checkpoints # <<>>
    /\ checkpoints[Len(checkpoints)][1] = Len(value_trail)
    /\ Len(value_trail) > 0

\* C3: backtrack(undo_func) with a frame present pops start = frames.last,
\* passes each entry of the top frame to undo_func exactly once, newest
\* first, and removes it; afterwards entries.len = start, depth() is one
\* less and the entries below start are unchanged and were not passed.
BundledBacktrackLIFO ==
    [][TrailBacktrack /\ trail_frames # <<>> =>
           LET start == trail_frames[Len(trail_frames)] IN
           /\ undo_calls' =
                  Reverse(SubSeq(trail_entries, start + 1, Len(trail_entries)))
           /\ Len(trail_entries') = start
           /\ trail_entries' = SubSeq(trail_entries, 1, start)
           /\ trail_frames' = Front(trail_frames)]_vars

\* A backtrack that undid two different entries of a nested frame and left
\* an entry of the enclosing frame on the tape.
BundledBacktrackLIFOWitness ==
    /\ Len(undo_calls) = 2
    /\ undo_calls[1] # undo_calls[2]
    /\ trail_frames # <<>>
    /\ Len(trail_entries) > trail_frames[Len(trail_frames)]

\* C4: push_frame(); extend(xs); pop_frame() leaves entries and frames as
\* they were before the push_frame, for every batch xs, the empty one
\* included.
PushPopSymmetry ==
    sym.stage = 3 =>
        /\ stack_entries = sym.before.entries
        /\ stack_frames = sym.before.frames
        /\ current_frame_entries(CurrentStack) =
               current_frame_entries(sym.before)
        /\ current_frame_entries(sym.before) # <<>> =>
               top(CurrentStack) = top(sym.before)

\* The sequence was run with a batch of two decisions on a stack whose
\* current frame holds entries.
PushPopSymmetryWitness ==
    /\ sym.stage = 3
    /\ Len(sym.xs) = 2
    /\ stack_frames # <<>>
    /\ Len(stack_entries) > stack_frames[Len(stack_frames)]

\* C8: in SearchStack the frames sequence is weakly increasing and every
\* element of frames is <= len(entries).
StackFrameMonotonicity ==
    /\ \A k \in 1 .. Len(stack_frames) : stack_frames[k] <= Len(stack_entries)
    /\ \A k \in 1 .. Len(stack_frames) - 1 : stack_frames[k] <= stack_frames[k + 1]

\* Two frames, the inner one starting inside the tape and emptied again by
\* pop_entry down to its start.
StackFrameMonotonicityWitness ==
    /\ Len(stack_frames) = 2
    /\ stack_frames[1] < stack_frames[2]
    /\ stack_frames[2] = Len(stack_entries)

\* C9: in the bundled SearchTrail the frames sequence is weakly increasing
\* and every element of frames is <= len(entries).
TrailFrameMonotonicity ==
    /\ \A k \in 1 .. Len(trail_frames) : trail_frames[k] <= Len(trail_entries)
    /\ \A k \in 1 .. Len(trail_frames) - 1 : trail_frames[k] <= trail_frames[k + 1]

\* After a backtrack that undid an entry, a frame remains that starts above
\* an entry pushed before any frame was open.
TrailFrameMonotonicityWitness ==
    /\ undo_calls # <<>>
    /\ trail_frames # <<>>
    /\ trail_frames[1] > 0
    /\ trail_frames[Len(trail_frames)] = Len(trail_entries)

\* The time points a window list covers; the point t stands for [t, t + 1).
Points(ws) ==
    {t \in Times : \E k \in 1 .. Len(ws) :
                       ws[k].start_inclusive <= t /\ t < ws[k].end_exclusive}

\* windows covers exactly the availability minus the fixed assignments.
CarvedPoints ==
    Points(windows) =
        Points(query.availability) \ Points(query.fixed_assignments)

\* Every window is non-empty and lies before the next one.
CarvedOrdered ==
    /\ \A k \in 1 .. Len(windows) :
           windows[k].start_inclusive < windows[k].end_exclusive
    /\ SortedDisjoint(windows)

\* The time t is where one availability window ends and the next begins.
AvailabilitySeam(t) ==
    \E j \in 1 .. (Len(query.availability) - 1) :
        /\ query.availability[j].end_exclusive = t
        /\ query.availability[j + 1].start_inclusive = t

\* C5 as stated: the carving assign yields the availability minus the fixed
\* assignments as a set of time points, split into maximal intervals: no
\* window is empty and no two consecutive windows touch.
CarvingMaximalIntervals ==
    query.op = "assign_carve" =>
        /\ CarvedPoints
        /\ CarvedOrdered
        /\ \A k \in 1 .. (Len(windows) - 1) :
               windows[k].end_exclusive < windows[k + 1].start_inclusive

\* C5 as amended: the carving assign yields the availability minus the
\* fixed assignments as a set of time points, in non-empty sorted disjoint
\* windows that are maximal within each availability window: two
\* consecutive windows touch only where two availability windows touch.
CarvingCorrectness ==
    query.op = "assign_carve" =>
        /\ CarvedPoints
        /\ CarvedOrdered
        /\ \A k \in 1 .. (Len(windows) - 1) :
               windows[k].end_exclusive = windows[k + 1].start_inclusive
                   => AvailabilitySeam(windows[k].end_exclusive)

\* Two overlapping fixed assignments that reach outside the availability,
\* carved out of two availability windows, with a window left.
CarvingCorrectnessWitness ==
    /\ query.op = "assign_carve"
    /\ Len(query.availability) = 2
    /\ Len(query.fixed_assignments) = 2
    /\ query.fixed_assignments[2].start_inclusive <
           query.fixed_assignments[1].end_exclusive
    /\ Points(query.fixed_assignments) \ Points(query.availability) # {}
    /\ Points(query.fixed_assignments) \cap Points(query.availability) # {}
    /\ windows # <<>>

\* The window [s, e) ends after ready_time and holds duration from
\* max(ready_time, s) on.
FitsFrom(w, ready_time, duration) ==
    /\ w.end_exclusive > ready_time
    /\ duration <= w.end_exclusive - Max(ready_time, w.start_inclusive)

\* Service of the given duration starting at t lies inside one window.
InsideOneWindow(t, duration) ==
    \E k \in 1 .. Len(windows) :
        /\ windows[k].start_inclusive <= t
        /\ t < windows[k].end_exclusive
        /\ t + duration <= windows[k].end_exclusive

\* C6: find_earliest_start(ready_time, duration) returns
\* max(ready_time, s) for the first window [s, e) with e > ready_time and
\* duration <= e - max(ready_time, s), and absent exactly when there is no
\* such window; a returned time is >= ready_time and the smallest start
\* from ready_time on at which the duration lies inside one window.
EarliestFit ==
    query.op = "find_earliest_start" =>
        LET fits == {k \in 1 .. Len(windows) :
                         FitsFrom(windows[k], query.ready_time, query.duration)}
            first == CHOOSE k \in fits : \A j \in fits : k <= j
        IN  /\ query.result.has_value <=> fits # {}
            /\ query.result.has_value =>
                   /\ query.result.value =
                          Max(query.ready_time, windows[first].start_inclusive)
                   /\ query.result.value >= query.ready_time
                   /\ InsideOneWindow(query.result.value, query.duration)
                   /\ \A t \in query.ready_time .. (query.result.value - 1) :
                          ~InsideOneWindow(t, query.duration)

\* A query that had to skip a window ending before ready_time and a window
\* too short, and found its start inside a later window.
EarliestFitWitness ==
    /\ query.op = "find_earliest_start"
    /\ query.result.has_value
    /\ Len(windows) >= 2
    /\ query.duration >= 2
    /\ query.result.value > query.ready_time
    /\ windows[1].end_exclusive > query.ready_time
    /\ query.result.value >= windows[1].end_exclusive

ApplyMoveUpdatesState ==
    state_op = "apply_move" =>
        LET v == undone.v_idx
            b == undone.b_idx
        IN  /\ ~is_assigned(undone.before, v)
            /\ berth_free_times[b] = undone.finish_time
            /\ vessel_assignments[v] = b
            /\ vessel_start_times[v] = undone.start_time
            /\ current_objective =
                   undone.before.current_objective + undone.cost_delta
            /\ last_assigned_vessel = v
            /\ is_assigned(CurrentState, v)
            /\ get_assigned_berth(CurrentState, v) = b
            /\ get_start_time(CurrentState, v) = undone.start_time
            /\ \A c \in Berths \ {b} :
                   berth_free_times[c] = undone.before.berth_free_times[c]
            /\ \A w \in Vessels \ {v} :
                   /\ vessel_assignments[w] = undone.before.vessel_assignments[w]
                   /\ vessel_start_times[w] = undone.before.vessel_start_times[w]

\* A second move, applied on top of an earlier one, that changed the free
\* time of its berth, the start time of its vessel and the objective.
ApplyMoveUpdatesStateWitness ==
    /\ state_op = "apply_move"
    /\ Len(captured) = 2
    /\ undone.before.current_objective > 0
    /\ undone.finish_time # undone.before.berth_free_times[undone.b_idx]
    /\ undone.start_time # undone.before.vessel_start_times[undone.v_idx]

\* C15: backtrack_move(v, b, old_free, old_obj, old_last) leaves
\* vessel_start_times alone, vessel_start_times[v] included, and changes
\* neither the assignment of another vessel nor the free time of another
\* berth; the moves applied before the undone one stay applied.
BacktrackMoveFrame ==
    [][BacktrackMove =>
           LET m == captured[Len(captured)] IN
           /\ vessel_start_times' = vessel_start_times
           /\ \A w \in Vessels \ {m.v_idx} :
                  vessel_assignments'[w] = vessel_assignments[w]
           /\ \A c \in Berths \ {m.b_idx} :
                  berth_free_times'[c] = berth_free_times[c]
           /\ \A k \in 1 .. (Len(captured) - 1) :
                  vessel_assignments'[captured[k].v_idx] = captured[k].b_idx]_vars

\* The newer of two stacked moves was undone: the earlier one is still
\* applied and the undone vessel keeps the start time of its move.
BacktrackMoveFrameWitness ==
    /\ state_op = "apply_backtrack"
    /\ Len(captured) = 1
    /\ is_assigned(CurrentState, captured[1].v_idx)
    /\ undone.before.vessel_start_times[undone.v_idx] = 0
    /\ vessel_start_times[undone.v_idx] = 1

\* C19: in a debug build apply_move(v, ...) on an assigned vessel and
\* get_start_time(v) and get_assigned_berth(v) on an unassigned vessel
\* abort, and the rejected call modifies no field of the state.
DebugRejectsState ==
    /\ \A v \in Vessels :
           IF is_assigned(CurrentState, v)
           THEN \A b \in Berths, st \in StateTimes, ft \in StateTimes,
                   cd \in CostDeltas :
                    LET r == apply_move_debug(CurrentState, v, b, st, ft, cd)
                    IN  r.aborted /\ r.state = CurrentState
           ELSE /\ get_start_time_debug(CurrentState, v).aborted
                /\ get_start_time_debug(CurrentState, v).state = CurrentState
                /\ get_assigned_berth_debug(CurrentState, v).aborted
                /\ get_assigned_berth_debug(CurrentState, v).state = CurrentState
    /\ aborted.call = "apply_move" => is_assigned(CurrentState, aborted.arg)
    /\ aborted.call \in {"get_start_time", "get_assigned_berth"} =>
           ~is_assigned(CurrentState, aborted.arg)

\* A double assignment was rejected after a move had been applied.
DebugRejectsStateWitness ==
    /\ aborted.call = "apply_move"
    /\ current_objective > 0
    /\ last_assigned_vessel = aborted.arg

\* The entries of seq above position n, newest first.
NewestFirst(seq, n) ==
    [k \in 1 .. (Len(seq) - n) |-> seq[Len(seq) + 1 - k]]

\* C12: after assign(open, close), assign(windows), the carving assign and
\* clear, the stored windows are strictly ordered by start, pairwise
\* disjoint and each non-empty.
TimelineStructure ==
    /\ \A k \in 1 .. Len(windows) :
           windows[k].start_inclusive < windows[k].end_exclusive
    /\ \A j \in 1 .. Len(windows), k \in 1 .. Len(windows) :
           j < k =>
               /\ windows[j].start_inclusive < windows[k].start_inclusive
               /\ windows[j].end_exclusive <= windows[k].start_inclusive

\* A carving that split one availability window around a fixed assignment.
TimelineStructureWitness ==
    /\ query.op = "assign_carve"
    /\ Len(query.availability) = 1
    /\ query.fixed_assignments # <<>>
    /\ Len(windows) = 2

\* C13: within one backtrack, cleanup_op is called for all dirty indices of
\* the popped scope, most recent first, before any value is restored, and
\* the values are restored most recent first; when cleanup_op writes into
\* the container the values are restored into, an index that was both
\* marked touched and saved ends with its restored old value.
CleanupBeforeRestore ==
    [][(BacktrackInto /\ checkpoints # <<>>) =>
           LET cp == checkpoints[Len(checkpoints)]
               dirty == NewestFirst(dirty_indices, cp[2])
               saved == NewestFirst(value_trail, cp[1])
               cleanups == [k \in 1 .. Len(dirty) |-> dirty[k].index]
               restores == [k \in 1 .. Len(saved) |->
                               <<saved[k].index, saved[k].old_value>>]
           IN  /\ cleanup_calls' = cleanups
               /\ value_writes' =
                      [k \in 1 .. Len(cleanups) |-> <<cleanups[k], ResetVal>>]
                          \o restores
               /\ \A i \in Slots :
                      (/\ \E k \in 1 .. Len(dirty) : dirty[k].index = i
                       /\ \E k \in 1 .. Len(saved) : saved[k].index = i)
                      => \E k \in 1 .. Len(saved) :
                             /\ saved[k].index = i
                             /\ \A j \in (k + 1) .. Len(saved) :
                                    saved[j].index # i
                             /\ values'[i] = saved[k].old_value]_vars

\* A backtrack whose cleanup_op reset an index and then restored the value
\* saved for the same index.
CleanupBeforeRestoreWitness ==
    /\ cleanup_calls # <<>>
    /\ Len(value_writes) = 2
    /\ value_writes[1] = <<cleanup_calls[1], ResetVal>>
    /\ value_writes[2][1] = cleanup_calls[1]
    /\ values[cleanup_calls[1]] = value_writes[2][2]
    /\ values[cleanup_calls[1]] # ResetVal

\* The decisions of all open frames, outermost frame first.
RECURSIVE Flatten(_)
Flatten(n) == IF n = <<>> THEN <<>> ELSE Flatten(Front(n)) \o n[Len(n)]

\* C16: in every reachable stack state current_frame_entries() is
\* entries[frames.last .. entries.len) in insertion order when a frame
\* exists, the decisions of the current frame, and empty when no frame
\* exists; current_frame_size() is the length of that view.
CurrentFrameView ==
    LET st == CurrentStack
        view == current_frame_entries(st)
    IN  /\ Len(nested) = Len(stack_frames)
        /\ view = IF nested = <<>> THEN <<>> ELSE nested[Len(nested)]
        /\ stack_frames = <<>> => view = <<>>
        /\ stack_frames # <<>> =>
               LET start == stack_frames[Len(stack_frames)]
               IN  view = [k \in 1 .. (Len(stack_entries) - start) |->
                               stack_entries[start + k]]
        /\ current_frame_size(st) = Len(view)

\* A current frame of two different decisions above an enclosing frame that
\* holds a decision.
CurrentFrameViewWitness ==
    /\ Len(nested) = 2
    /\ Len(nested[1]) = 1
    /\ Len(nested[2]) = 2
    /\ nested[2][1] # nested[2][2]

\* C17: iteration from begin() to end() visits every live entry of every
\* frame exactly once, outermost frame first and in insertion order, and
\* iteration from rbegin() to rend() visits the same entries in the
\* opposite order.
GlobalIteration ==
    LET st == CurrentStack
    IN  /\ Iterate(st, 1, <<>>) = Flatten(nested)
        /\ ReverseIterate(st, Len(st.entries), <<>>) = Reverse(Flatten(nested))

\* An outer frame of two different decisions and an inner frame of one,
\* with the tape full.
GlobalIterationWitness ==
    /\ Len(nested) = 2
    /\ Len(nested[1]) = 2
    /\ nested[1][1] # nested[1][2]
    /\ Len(nested[2]) = 1
    /\ Len(stack_entries) = MaxEntries

\* The current frame holds no entry.
CurrentFrameEmpty ==
    \/ stack_frames = <<>>
    \/ Len(stack_entries) = stack_frames[Len(stack_frames)]

\* The call r was rejected: it aborted and left the stack as it is.
Rejected(r) == r.aborted /\ r.state = CurrentStack

\* C18: in a debug build top() and pop_entry() abort when the current frame
\* is empty, also when enclosing frames hold entries, and pop_frame(), push,
\* emplace and extend abort when no frame exists; the stack is not changed.
DebugRejectsStack ==
    LET st == CurrentStack
    IN  /\ CurrentFrameEmpty =>
               Rejected(top_debug(st)) /\ Rejected(pop_entry_debug(st))
        /\ stack_frames = <<>> =>
               /\ Rejected(pop_frame_debug(st))
               /\ \A d \in Decisions :
                      Rejected(push_debug(st, d)) /\ Rejected(emplace_debug(st, d))
               /\ \A xs \in Batches :
                      /\ Rejected(extend_debug(st, xs))
                      /\ Rejected(extend_iter_debug(st, xs))
                      /\ Rejected(extend_list_debug(st, xs))
        /\ aborted.call \in {"top", "pop_entry"} => CurrentFrameEmpty
        /\ aborted.call \in {"pop_frame", "push", "emplace", "extend"} =>
               stack_frames = <<>>

\* pop_entry() was rejected on an empty current frame while an enclosing
\* frame held entries.
DebugRejectsStackWitness ==
    /\ aborted.call = "pop_entry"
    /\ Len(stack_frames) = 2
    /\ stack_entries # <<>>

\* C20: in a debug build, bundled backtrack(undo_fn) called at depth() == 0
\* aborts without passing any entry to undo_fn, and the tape is as it was.
DebugRejectsTrail ==
    [][TrailBacktrack /\ Len(trail_frames) = 0 =>
           /\ aborted' = AbortedIn("backtrack", 0)
           /\ undo_calls' = <<>>
           /\ trail_entries' = trail_entries
           /\ trail_frames' = trail_frames]_vars

\* The process aborted in backtrack at depth 0 with two entries on the
\* tape, none of which was undone.
DebugRejectsTrailWitness ==
    /\ aborted = AbortedIn("backtrack", 0)
    /\ trail_frames = <<>>
    /\ Len(trail_entries) = 2
    /\ undo_calls = <<>>

\* C21: a delta backtrack with no checkpoint returns without calling
\* cleanup_op and without writing to the value or the dirty container, and
\* leaves value_trail, dirty_indices and checkpoints as they were; no check
\* ends the process.
BacktrackWithoutCheckpoint ==
    [][(Backtrack /\ checkpoints = <<>>) =>
           /\ cleanup_calls' = <<>>
           /\ value_writes' = <<>>
           /\ values' = values
           /\ dirty_target' = dirty_target
           /\ value_trail' = value_trail
           /\ dirty_indices' = dirty_indices
           /\ checkpoints' = checkpoints
           /\ aborted' = NotAborted]_vars

\* backtrack was called at depth 0 with a save and a mark on the logs, and
\* the written value and the mark are still in the containers.
BacktrackWithoutCheckpointWitness ==
    /\ delta_call = Called("backtrack", 0)
    /\ Len(value_trail) = 1
    /\ Len(dirty_indices) = 1
    /\ values[value_trail[1].index] # value_trail[1].old_value
    /\ dirty_target[dirty_indices[1].index] = TouchedVal

\* C22: commit_checkpoint() with a checkpoint present pops exactly the top
\* checkpoint and leaves value_trail, dirty_indices and both containers as
\* they were; with no checkpoint it changes nothing; and the backtrack that
\* follows a commit reverts the saves of the committed scope together with
\* those of the enclosing scope, newest first, back to the values at the
\* enclosing checkpoint.
CommitPopsCheckpoint ==
    [][/\ CommitCheckpoint =>
              /\ checkpoints' = Front(checkpoints)
              /\ checkpoints # <<>> => Len(checkpoints') = Len(checkpoints) - 1
              /\ checkpoints = <<>> => checkpoints' = <<>>
              /\ value_trail' = value_trail
              /\ dirty_indices' = dirty_indices
              /\ values' = values
              /\ dirty_target' = dirty_target
              /\ cleanup_calls' = <<>>
              /\ value_writes' = <<>>
       /\ (Backtrack /\ delta_call.call = "commit_checkpoint"
                     /\ checkpoints # <<>>) =>
              LET cp == checkpoints[Len(checkpoints)]
                  saved == NewestFirst(value_trail, cp[1])
              IN  /\ value_writes' =
                         [k \in 1 .. Len(saved) |->
                             <<saved[k].index, saved[k].old_value>>]
                  /\ values' = scope_values[Len(scope_values)]
                  /\ Len(value_trail') = cp[1]
                  /\ Len(dirty_indices') = cp[2]]_vars

\* An inner checkpoint was committed at depth 2 and the backtrack after it
\* restored one index twice: first the save of the committed scope, then
\* the save of the enclosing scope.
CommitPopsCheckpointWitness ==
    /\ inner = "committed"
    /\ delta_call = Called("backtrack", 1)
    /\ checkpoints = <<>>
    /\ Len(value_writes) = 2
    /\ value_writes[1][1] = value_writes[2][1]
    /\ value_writes[1][2] # value_writes[2][2]
    /\ value_trail = <<>>

\* push(x) for every x of xs in turn, in a debug build, starting from the
\* outcome r.
RECURSIVE PushEach(_, _)
PushEach(r, xs) ==
    IF xs = <<>> \/ r.aborted
    THEN r
    ELSE PushEach(push_debug(r.state, Head(xs)), Tail(xs))

\* A step of one of the five fill_frame overloads.
FillFrameStep ==
    /\ stack_call' \in {"fill_frame(range)", "fill_frame(first, last)",
                        "fill_frame(list)", "fill_frame(gen)",
                        "fill_frame(count_hint, gen)"}
    /\ FillFrame \/ FillFrameIter \/ FillFrameList \/ FillFrameGen \/ FillFrameHint

\* C23: every fill_frame overload leaves the entries and frames that
\* push_frame() followed by extend of the same elements leaves, and that
\* push_frame() followed by one push per element leaves; depth() grows by
\* exactly one, also for an empty batch, and the new current frame holds
\* exactly the appended elements in order.
FillFrameIsPushThenExtend ==
    [][FillFrameStep =>
           LET xs == nested'[Len(nested')]
               st == CurrentStack
               after == Stack(stack_entries', stack_frames')
               by_range == extend_debug(push_frame(st), xs)
               by_iter == extend_iter_debug(push_frame(st), xs)
               by_list == extend_list_debug(push_frame(st), xs)
               by_push == PushEach(Outcome(FALSE, push_frame(st), 0), xs)
           IN  /\ ~by_range.aborted /\ after = by_range.state
               /\ ~by_iter.aborted /\ after = by_iter.state
               /\ ~by_list.aborted /\ after = by_list.state
               /\ ~by_push.aborted /\ after = by_push.state
               /\ Len(stack_frames') = Len(stack_frames) + 1
               /\ current_frame_entries(after) = xs
               /\ current_frame_size(after) = Len(xs)
               /\ SubSeq(stack_entries', 1, Len(stack_entries)) = stack_entries
               /\ aborted' = NotAborted]_vars

\* fill_frame(count_hint, gen) opened a nested frame of two different
\* decisions above a frame that holds one.
FillFrameIsPushThenExtendWitness ==
    /\ stack_call = "fill_frame(count_hint, gen)"
    /\ Len(stack_frames) = 2
    /\ Len(nested[1]) = 1
    /\ Len(nested[2]) = 2
    /\ nested[2][1] # nested[2][2]
    /\ current_frame_entries(CurrentStack) = nested[2]

\* C24: assign(open, close) replaces whatever the timeline held with the
\* single window [open, close) when open < close and with the empty timeline
\* when open >= close, and raises no error.
AssignRangeReplaces ==
    query.op = "assign_range" =>
        /\ query.open < query.close =>
               windows = <<Window(query.open, query.close)>>
        /\ query.open >= query.close => windows = <<>>
        /\ aborted = NotAborted

\* assign(open, close) with open > close was called on a timeline that held
\* two windows and left it empty.
AssignRangeReplacesWitness ==
    /\ query.op = "assign_range"
    /\ query.open > query.close
    /\ query.held = 2
    /\ windows = <<>>

\* C25: find_earliest_start starts its search at the first window with
\* end_exclusive > ready_time; a window with end_exclusive = ready_time lies
\* before that position and is never the window the result is taken from,
\* for every duration, duration 0 included.
HalfOpenSkip ==
    (query.op = "find_earliest_start" /\ windows # <<>>) =>
        LET ready_time == query.ready_time
            later == {k \in 1 .. Len(windows) :
                          windows[k].end_exclusive > ready_time}
            start == IF later = {} THEN Len(windows) + 1
                     ELSE CHOOSE k \in later : \A j \in later : k <= j
            fits == {k \in start .. Len(windows) :
                         query.duration <=
                             windows[k].end_exclusive
                                 - Max(ready_time, windows[k].start_inclusive)}
        IN  /\ lower_bound(windows, 1, Len(windows), ready_time) = start
            /\ \A k \in 1 .. Len(windows) :
                   windows[k].end_exclusive = ready_time => k < start
            /\ query.result.has_value <=> fits # {}
            /\ query.result.has_value =>
                   LET src == CHOOSE k \in fits : \A j \in fits : k <= j
                   IN  /\ windows[src].end_exclusive # ready_time
                       /\ query.result.value =
                              Max(ready_time, windows[src].start_inclusive)

\* A query of duration 0 on a timeline whose first window ends exactly at
\* ready_time: the result is the start of a later window, after a gap.
HalfOpenSkipWitness ==
    /\ query.op = "find_earliest_start"
    /\ query.duration = 0
    /\ Len(windows) = 2
    /\ windows[1].end_exclusive = query.ready_time
    /\ query.result.has_value
    /\ query.result.value = windows[2].start_inclusive
    /\ query.result.value > query.ready_time

\* C26: backtrack(values, dirty_target, reset_val) with a checkpoint present
\* calls the cleanup for the indices marked in the popped scope, newest
\* first; afterwards dirty_target[i] = reset_val for every index marked in
\* that scope and dirty_target is unchanged at every other index; the value
\* container receives exactly the restoring writes of the general overload
\* and ends as it was at the checkpoint.
ConvenienceReset ==
    [][(Backtrack /\ checkpoints # <<>>) =>
           LET cp == checkpoints[Len(checkpoints)]
               dirty == NewestFirst(dirty_indices, cp[2])
               saved == NewestFirst(value_trail, cp[1])
               marked == {dirty[k].index : k \in 1 .. Len(dirty)}
           IN  /\ cleanup_calls' = [k \in 1 .. Len(dirty) |-> dirty[k].index]
               /\ \A i \in marked : dirty_target'[i] = ResetVal
               /\ \A i \in Slots \ marked : dirty_target'[i] = dirty_target[i]
               /\ value_writes' =
                      [k \in 1 .. Len(saved) |->
                          <<saved[k].index, saved[k].old_value>>]
               /\ values' = scope_values[Len(scope_values)]
               /\ dirty_indices' = SubSeq(dirty_indices, 1, cp[2])
               /\ value_trail' = SubSeq(value_trail, 1, cp[1])]_vars

\* A backtrack reset the index marked in the popped scope and left the
\* other index, marked in the enclosing scope, touched.
ConvenienceResetWitness ==
    /\ delta_call.call = "backtrack"
    /\ delta_call.depth >= 1
    /\ Len(cleanup_calls) = 1
    /\ Len(dirty_indices) = 1
    /\ dirty_indices[1].index # cleanup_calls[1]
    /\ dirty_target[cleanup_calls[1]] = ResetVal
    /\ dirty_target[dirty_indices[1].index] = TouchedVal

\* C27: with a non-empty current frame, top() returns the last entry of
\* the current frame, and pop_entry() removes exactly that entry:
\* current_frame_size() is one less, depth() and frames are unchanged, and
\* the remaining entries keep their values and order.
TopAndPopEntry ==
    /\ [](~CurrentFrameEmpty =>
              LET r == top_debug(CurrentStack)
                  view == current_frame_entries(CurrentStack)
              IN  /\ ~r.aborted
                  /\ r.state = CurrentStack
                  /\ r.value = view[Len(view)]
                  /\ r.value = nested[Len(nested)][Len(nested[Len(nested)])])
    /\ [][(PopEntry /\ ~CurrentFrameEmpty) =>
              LET st == CurrentStack
                  after == Stack(stack_entries', stack_frames')
              IN  /\ stack_entries = Append(stack_entries', top(st))
                  /\ stack_frames' = stack_frames
                  /\ Len(stack_frames') = Len(stack_frames)
                  /\ current_frame_size(after) = current_frame_size(st) - 1
                  /\ current_frame_entries(after) =
                         Front(current_frame_entries(st))
                  /\ aborted' = NotAborted]_vars

\* pop_entry() removed the newer of two different decisions of a nested
\* frame; the older one is now top(), above a non-empty enclosing frame.
TopAndPopEntryWitness ==
    /\ stack_call = "pop_entry"
    /\ Alive
    /\ Len(stack_frames) = 2
    /\ Len(nested[1]) = 1
    /\ Len(nested[2]) = 1
    /\ nested[1][1] # nested[2][1]
    /\ top(CurrentStack) = nested[2][1]

\* C28: clear() on the stack and on the bundled trail, from any reachable
\* state, empties entries and frames (empty() holds, depth() is 0, the used
\* bytes are 0) and leaves the capacity of both vectors, and with it the
\* allocated bytes, unchanged; what is left is a freshly constructed
\* instance with that capacity.
ClearKeepsCapacity ==
    [][/\ (stack_call' = "clear" /\ Clear) =>
              /\ stack_entries' = <<>>
              /\ stack_frames' = <<>>
              /\ current_frame_size(Stack(stack_entries', stack_frames')) = 0
              /\ stack_entries_cap' = stack_entries_cap
              /\ stack_frames_cap' = stack_frames_cap
              /\ allocated_memory_bytes(stack_entries_cap', stack_frames_cap')
                     = allocated_memory_bytes(stack_entries_cap,
                                              stack_frames_cap)
              /\ aborted' = NotAborted
       /\ (trail_call' = "clear" /\ TrailClear) =>
              /\ trail_entries' = <<>>
              /\ trail_frames' = <<>>
              /\ trail_used_memory_bytes(trail_entries', trail_frames') = 0
              /\ trail_entries_cap' = trail_entries_cap
              /\ trail_frames_cap' = trail_frames_cap
              /\ trail_allocated_memory_bytes(trail_entries_cap',
                                              trail_frames_cap')
                     = trail_allocated_memory_bytes(trail_entries_cap,
                                                    trail_frames_cap)
              /\ aborted' = NotAborted]_vars

\* Both containers were cleared after their vectors had grown past the
\* reserved capacity: both are empty and still own the grown storage.
ClearKeepsCapacityWitness ==
    /\ stack_call = "clear"
    /\ trail_call = "clear"
    /\ stack_entries = <<>> /\ stack_frames = <<>>
    /\ trail_entries = <<>> /\ trail_frames = <<>>
    /\ stack_entries_cap = MaxEntries
    /\ stack_frames_cap = MaxDepth
    /\ trail_entries_cap = MaxEntries
    /\ trail_frames_cap = MaxDepth

\* C29: after any sequence of legal stack operations every entry belongs
\* to a frame: entries is empty whenever no frame exists, and frames[0] = 0
\* whenever one does (the first position of the frames sequence here).
EveryEntryFramed ==
    /\ stack_frames = <<>> => stack_entries = <<>>
    /\ stack_frames # <<>> => stack_frames[1] = 0
    /\ Len(Flatten(nested)) = Len(stack_entries)

\* From the empty stack a frame of two decisions was opened and popped:
\* no frame is left and the tape is empty again.
EveryEntryFramedWitness ==
    /\ sym.stage = 3
    /\ Len(sym.xs) = 2
    /\ sym.before.frames = <<>>
    /\ stack_frames = <<>>
    /\ stack_entries = <<>>

\* C30: no legal operation made while a frame is current (push_frame,
\* push, emplace, extend, pop_entry, fill_frame, pop_frame) changes the
\* entries below the start of the current frame or the starts of the
\* enclosing frames; and the pop_frame that matches a push_frame leaves
\* entries and frames as they were before that push_frame, whatever was
\* done in between.
SiblingPreservation ==
    [][/\ (stack_frames # <<>> /\ stack_call' \notin {"clear", "reserve"}) =>
              LET start == stack_frames[Len(stack_frames)]
              IN  /\ Len(stack_entries') >= start
                  /\ SubSeq(stack_entries', 1, start) =
                         SubSeq(stack_entries, 1, start)
                  /\ SubSeq(stack_frames', 1, Len(stack_frames) - 1) =
                         Front(stack_frames)
       /\ (stack_call' = "pop_frame" /\ aborted' = NotAborted) =>
              /\ stack_entries' = opened[Len(opened)].entries
              /\ stack_frames' = opened[Len(opened)].frames]_vars

\* The frame above an enclosing frame of two different decisions was
\* popped after the tape had been filled up; the enclosing frame holds its
\* two decisions.
SiblingPreservationWitness ==
    /\ stack_call = "pop_frame"
    /\ Alive
    /\ Len(stack_frames) = 1
    /\ Len(stack_entries) = 2
    /\ stack_entries[1] # stack_entries[2]
    /\ nested = <<stack_entries>>
    /\ stack_entries_cap = MaxEntries

\* The windows a and b share a time point.
Overlap(a, b) ==
    /\ a.start_inclusive < b.end_exclusive
    /\ b.start_inclusive < a.end_exclusive

\* C31: the carving assign shares one fixed iterator between the
\* availability windows. A fixed window is advanced past during an
\* availability window only if it ends strictly before that window's end
\* (which covers the case that it ends at or before the cursor); the loop
\* of an availability window stops at a fixed window that starts inside it
\* and ends at or past its end, without advancing; no fixed window that was
\* advanced past overlaps a later availability window; and every fixed
\* window is subtracted from every availability window it overlaps.
SharedFixedIterator ==
    query.op = "assign_carve" =>
        LET availability == query.availability
            fixed == query.fixed_assignments
            its == FixedIterators(availability, 1, fixed, 1)
        IN  /\ \A k \in 1 .. Len(availability) :
                   /\ its[k] <= its[k + 1]
                   /\ \A i \in its[k] .. (its[k + 1] - 1) :
                          /\ fixed[i].end_exclusive < availability[k].end_exclusive
                          /\ \A j \in (k + 1) .. Len(availability) :
                                 ~Overlap(fixed[i], availability[j])
                   /\ \A i \in its[k] .. Len(fixed) :
                          (/\ \A h \in its[k] .. (i - 1) :
                                  fixed[h].end_exclusive < availability[k].end_exclusive
                           /\ fixed[i].start_inclusive < availability[k].end_exclusive
                           /\ fixed[i].end_exclusive >= availability[k].end_exclusive)
                              => its[k + 1] = i
            /\ \A i \in 1 .. Len(fixed) :
                   Points(windows) \cap Points(<<fixed[i]>>) = {}

\* A fixed window that overlaps two availability windows: the iterator
\* still stands at it when the second availability window is carved, and a
\* window is left before it.
SharedFixedIteratorWitness ==
    /\ query.op = "assign_carve"
    /\ Len(query.availability) = 2
    /\ query.fixed_assignments # <<>>
    /\ LET its == FixedIterators(query.availability, 1, query.fixed_assignments, 1)
           f == query.fixed_assignments[its[2]]
       IN  /\ its[2] <= Len(query.fixed_assignments)
           /\ its[2] = its[3]
           /\ Overlap(f, query.availability[1])
           /\ Overlap(f, query.availability[2])
    /\ windows # <<>>

\* C32: when every apply_move is preceded by pushing its bundle (v, b,
\* berth_free_times[b], current_objective, last_assigned_vessel) on the
\* trail and the undo function of backtrack calls backtrack_move with the
\* bundle, then after each trail backtrack berth_free_times,
\* vessel_assignments, current_objective and last_assigned_vessel equal
\* their values at the matching push_frame, at any nesting depth and with
\* any number of moves in the frame.
TrailStateLockstep ==
    [][(trail_call' = "backtrack" /\ SearchBacktrack /\ trail_frames # <<>>) =>
           LET at_push == frame_states[Len(frame_states)]
           IN  /\ berth_free_times' = at_push.berth_free_times
               /\ vessel_assignments' = at_push.vessel_assignments
               /\ current_objective' = at_push.current_objective
               /\ last_assigned_vessel' = at_push.last_assigned_vessel
               /\ trail_entries' = SubSeq(trail_entries, 1,
                                          trail_frames[Len(trail_frames)])]_vars

\* A backtrack has left an enclosing frame open and every berth free at 0
\* again, after a vessel had been moved onto a berth that an earlier move
\* had occupied: the vessel is unassigned and its start time is still 1.
TrailStateLockstepWitness ==
    /\ trail_call = "backtrack"
    /\ Alive
    /\ trail_frames # <<>>
    /\ trail_entries = <<>>
    /\ \A b \in Berths : berth_free_times[b] = 0
    /\ \E v \in Vessels :
           /\ ~is_assigned(CurrentState, v)
           /\ vessel_start_times[v] = 1

\* C33: when each backtrack_move undoes the most recent move that is still
\* applied, with the values captured just before that move, then in every
\* reachable state last_assigned_vessel is kUnassignedVessel or an assigned
\* vessel; while the process runs it is the vessel of the most recent move
\* still applied, and kUnassignedVessel when no move is applied.
LastAssignedVessel ==
    /\ \/ last_assigned_vessel = kUnassignedVessel
       \/ /\ last_assigned_vessel \in Vessels
          /\ is_assigned(CurrentState, last_assigned_vessel)
    /\ Alive =>
           IF captured = <<>>
           THEN last_assigned_vessel = kUnassignedVessel
           ELSE last_assigned_vessel = captured[Len(captured)].v_idx

\* Two moves were applied and the second was undone: the vessel of the
\* first move is the last assigned one again.
LastAssignedVesselWitness ==
    /\ state_op = "apply_backtrack"
    /\ Len(captured) = 1
    /\ last_assigned_vessel = captured[1].v_idx
    /\ is_assigned(CurrentState, last_assigned_vessel)
    /\ ~is_assigned(CurrentState, undone.v_idx)

\* C34: backtrack_move checks no precondition.  Called with any arguments
\* in any state it does not abort, also when the vessel is unassigned or
\* assigned to another berth; it writes berth_free_times[b], sets
\* vessel_assignments[v] to kUnassignedVessel, overwrites current_objective
\* and last_assigned_vessel with the passed values and leaves every other
\* field as it was.
BacktrackMoveUnchecked ==
    [][state_op' = "backtrack_move(any)" =>
           /\ aborted' = NotAborted
           /\ berth_free_times' =
                  [berth_free_times
                       EXCEPT ![undone'.b_idx] = undone'.old_berth_free_time]
           /\ vessel_assignments' =
                  [vessel_assignments
                       EXCEPT ![undone'.v_idx] = kUnassignedVessel]
           /\ current_objective' = undone'.old_objective
           /\ last_assigned_vessel' = undone'.old_last_vessel
           /\ vessel_start_times' = vessel_start_times]_vars

\* backtrack_move has returned after a call for a vessel that was assigned
\* to another berth, and last_assigned_vessel now names an unassigned
\* vessel.
BacktrackMoveUncheckedWitness ==
    /\ state_op = "backtrack_move(any)"
    /\ Alive
    /\ undone.was_assigned_to \in Berths \ {undone.b_idx}
    /\ last_assigned_vessel \in Vessels
    /\ ~is_assigned(CurrentState, last_assigned_vessel)

\* C35: the bundled SearchTrail accepts push and emplace when no frame is
\* open, without aborting.  An entry pushed then lies below the start of the
\* first frame opened later; no backtrack passes it to the undo function or
\* removes it, and it stays on the tape until clear().
FramelessEntriesStay ==
    [][(trail_call' # "clear" /\ Alive) =>
           /\ (trail_frames = <<>> /\ trail_call' \in {"push", "emplace"}) =>
                  /\ aborted' = NotAborted
                  /\ Len(trail_entries') = Len(trail_entries) + 1
           /\ trail_frames = <<>> =>
                  /\ SubSeq(trail_entries', 1, Len(trail_entries)) = trail_entries
                  /\ trail_frames' # <<>> =>
                         trail_frames'[1] = Len(trail_entries)
           /\ trail_frames # <<>> =>
                  /\ Len(trail_entries') >= trail_frames[1]
                  /\ SubSeq(trail_entries', 1, trail_frames[1]) =
                         SubSeq(trail_entries, 1, trail_frames[1])
                  /\ trail_frames' # <<>> => trail_frames'[1] = trail_frames[1]
                  /\ trail_call' = "backtrack" =>
                         undo_calls' =
                             Reverse(SubSeq(trail_entries, Len(trail_entries') + 1,
                                            Len(trail_entries)))]_vars

\* The last frame has been backtracked and an entry undone, and an entry
\* pushed before any frame was opened is still on the tape.
FramelessEntriesStayWitness ==
    /\ trail_call = "backtrack"
    /\ Alive
    /\ undo_calls # <<>>
    /\ trail_frames = <<>>
    /\ trail_entries # <<>>

\* The assignments a backtrack makes when it unwinds the value log from
\* its end down to length n: newest entry first.
WritesDownTo(vt, n) ==
    [k \in 1 .. (Len(vt) - n) |->
        <<vt[Len(vt) + 1 - k].index, vt[Len(vt) + 1 - k].old_value>>]

\* The indices a backtrack gives to cleanup_op when it unwinds the dirty
\* log from its end down to length n: newest entry first.
CleanupsDownTo(di, n) ==
    [k \in 1 .. (Len(di) - n) |-> di[Len(di) + 1 - k].index]

\* C36: in the delta SearchTrail the entries recorded by save_value and
\* mark_touched while depth() = 0 are never restored or cleaned by a later
\* backtrack and stay in the logs until clear(): a checkpoint pushed at
\* depth 0 holds the lengths of the logs at that time, the first checkpoint
\* does not change while a checkpoint is present, no call but clear()
\* removes or changes an entry below it, and a backtrack restores and
\* cleans exactly the entries it removes.
DepthZeroEntriesStay ==
    [][~ClearTrail =>
           /\ checkpoints = <<>> =>
                  /\ Len(value_trail') >= Len(value_trail)
                  /\ SubSeq(value_trail', 1, Len(value_trail)) = value_trail
                  /\ Len(dirty_indices') >= Len(dirty_indices)
                  /\ SubSeq(dirty_indices', 1, Len(dirty_indices)) = dirty_indices
                  /\ checkpoints' # <<>> =>
                         checkpoints'[1] = <<Len(value_trail), Len(dirty_indices)>>
           /\ checkpoints # <<>> =>
                  /\ Len(value_trail') >= checkpoints[1][1]
                  /\ SubSeq(value_trail', 1, checkpoints[1][1]) =
                         SubSeq(value_trail, 1, checkpoints[1][1])
                  /\ Len(dirty_indices') >= checkpoints[1][2]
                  /\ SubSeq(dirty_indices', 1, checkpoints[1][2]) =
                         SubSeq(dirty_indices, 1, checkpoints[1][2])
                  /\ checkpoints' # <<>> => checkpoints'[1] = checkpoints[1]
           /\ delta_call'.call = "backtrack" =>
                  /\ Len(value_trail') <= Len(value_trail)
                  /\ value_writes' = WritesDownTo(value_trail, Len(value_trail'))
                  /\ Len(dirty_indices') <= Len(dirty_indices)
                  /\ cleanup_calls' =
                         CleanupsDownTo(dirty_indices, Len(dirty_indices'))]_vars

\* A backtrack to depth 0 has restored a value, and a log still holds an
\* entry: one recorded before the checkpoint was pushed.
DepthZeroEntriesStayWitness ==
    /\ delta_call = Called("backtrack", 1)
    /\ checkpoints = <<>>
    /\ value_writes # <<>>
    /\ Len(value_trail) + Len(dirty_indices) > 0

\* C37: one backtrack of the delta SearchTrail with a checkpoint present
\* writes the value container only at indices that have a value_trail entry
\* recorded at or above the popped checkpoint, calls cleanup_op exactly once
\* for every dirty_indices entry recorded at or above the popped checkpoint
\* (twice for an index marked twice) and for no other, and leaves the log
\* entries and the checkpoints of the enclosing scopes unchanged.
BacktrackFrame ==
    [][(delta_call'.call = "backtrack" /\ checkpoints # <<>>) =>
           LET target_val_size == checkpoints[Len(checkpoints)][1]
               target_dirty_size == checkpoints[Len(checkpoints)][2]
               saved == {value_trail[k].index :
                            k \in (target_val_size + 1) .. Len(value_trail)}
               marked == {dirty_indices[k].index :
                            k \in (target_dirty_size + 1) .. Len(dirty_indices)}
           IN  /\ \A i \in Slots \ saved : values'[i] = values[i]
               /\ \A k \in 1 .. Len(value_writes') : value_writes'[k][1] \in saved
               /\ cleanup_calls' = CleanupsDownTo(dirty_indices, target_dirty_size)
               /\ \A i \in Slots \ marked : dirty_target'[i] = dirty_target[i]
               /\ value_trail' = SubSeq(value_trail, 1, target_val_size)
               /\ dirty_indices' = SubSeq(dirty_indices, 1, target_dirty_size)
               /\ checkpoints' = Front(checkpoints)]_vars

\* A backtrack of an inner scope has cleaned the same index twice and left
\* the checkpoint of the enclosing scope in place.
BacktrackFrameWitness ==
    /\ delta_call.call = "backtrack"
    /\ Len(cleanup_calls) = 2
    /\ cleanup_calls[1] = cleanup_calls[2]
    /\ checkpoints # <<>>

\* C38: the bundled backtrack whose undo_func does not push onto the same
\* trail terminates, after exactly (entries.len - frames.last) invocations
\* of undo_func, counted on entry.  The loop re-reads entries.len on every
\* iteration: with an undo_func that pushes one entry onto the same trail
\* on each invocation, the backtrack never returns once undo_func has been
\* invoked, and the loop condition holds whenever it is tested.
UndoLoopTermination ==
    /\ (undo_loop.pc # "idle" /\ ~undo_loop.reentrant) ~> (undo_loop.pc = "idle")
    /\ [](undo_loop.pc = "idle" =>
              undo_loop.calls = undo_loop.expected)
    /\ []((undo_loop.reentrant /\ undo_loop.calls >= 1) =>
              /\ undo_loop.pc # "idle"
              /\ undo_loop.pc = "loop" => LoopContinues(undo_loop, trail_entries))

\* A backtrack with an undo_func that pushes onto the trail has invoked it
\* more often than its frame had entries and is still in the loop, with an
\* entry of the enclosing frame below.
UndoLoopTerminationWitness ==
    /\ undo_loop.reentrant
    /\ undo_loop.start_index >= 1
    /\ undo_loop.pc = "loop"
    /\ undo_loop.expected >= 1
    /\ undo_loop.calls > undo_loop.expected

\* C39: on a fixed valid timeline and for a fixed duration >= 0,
\* find_earliest_start is monotone in ready_time: for r1 <= r2, if the
\* result for r2 is present then the result for r1 is present and is <= the
\* result for r2; and every present result is >= its ready_time.
EarliestStartMonotone ==
    query.op = "find_earliest_start" =>
        /\ query.result.has_value => query.result.value >= query.ready_time
        /\ \A r \in Times :
               LET other == find_earliest_start(windows, r, query.duration)
               IN  /\ other.has_value => other.value >= r
                   /\ (r <= query.ready_time /\ query.result.has_value) =>
                          /\ other.has_value
                          /\ other.value <= query.result.value
                   /\ (query.ready_time <= r /\ other.has_value) =>
                          /\ query.result.has_value
                          /\ query.result.value <= other.value

\* On a timeline of two windows a query found a start, an earlier
\* ready_time gives a strictly earlier start, and a later ready_time gives
\* none.
EarliestStartMonotoneWitness ==
    /\ query.op = "find_earliest_start"
    /\ Len(windows) = 2
    /\ query.duration >= 1
    /\ query.result.has_value
    /\ \E r \in Times :
           /\ r < query.ready_time
           /\ find_earliest_start(windows, r, query.duration).value
                  < query.result.value
    /\ \E r \in Times :
           /\ r > query.ready_time
           /\ ~find_earliest_start(windows, r, query.duration).has_value

====
